---------------------------- MODULE Spec2Model ----------------------------
(***************************************************************************)
(* Name verification of PDF files (Matching_name_verification.py and the   *)
(* earlier revision Duplicate_name_finder_improved_v2.py): the name found  *)
(* in a PDF's file name is searched in the PDF's text, each file gets a    *)
(* score, and process_folder sorts the files into four buckets.            *)
(*                                                                         *)
(* A Python str is a sequence of characters; a character is a one-letter   *)
(* TLA+ string, except the two accented letters "e'" (e acute) and "E'"    *)
(* (capital e acute).                                                      *)
(***************************************************************************)
EXTENDS Integers, Sequences, FiniteSets, TLC

-----------------------------------------------------------------------------
(* Characters and the str methods the scripts use.                         *)

AsciiLowercase == <<"a","b","c","d","e","f","g","h","i","j","k","l","m",
                    "n","o","p","q","r","s","t","u","v","w","x","y","z">>

AsciiUppercase == <<"A","B","C","D","E","F","G","H","I","J","K","L","M",
                    "N","O","P","Q","R","S","T","U","V","W","X","Y","Z">>

Digits == {"0","1","2","3","4","5","6","7","8","9"}

Range(s) == {s[x] : x \in DOMAIN s}

LowerLetters == Range(AsciiLowercase)

UpperLetters == Range(AsciiUppercase)

\* what the regex class \s and str.isspace accept
Whitespace == {" ", "\t", "\n"}

Max(a, b) == IF a >= b THEN a ELSE b

Min(a, b) == IF a <= b THEN a ELSE b

\* s[from:to] of Python, 0-based and end-exclusive, clipped to the string
Slice(s, from, to) ==
    LET lo == Max(from, 0)
        hi == Min(to, Len(s))
    IN  IF hi <= lo THEN <<>> ELSE SubSeq(s, lo + 1, hi)

\* str.lower of one character
LowerChar(ch) ==
    IF ch \in UpperLetters
    THEN AsciiLowercase[CHOOSE x \in 1..26 : AsciiUppercase[x] = ch]
    ELSE IF ch = "E'" THEN "e'" ELSE ch

\* str.lower
lower(s) == [x \in DOMAIN s |-> LowerChar(s[x])]

\* unicodedata.normalize("NFKD", ch).encode('ascii', 'ignore').decode('ascii'):
\* an accented letter decomposes into its base letter and a combining mark,
\* and the mark, not being ASCII, is dropped
NFKDAscii(ch) ==
    IF ch = "e'" THEN <<"e">> ELSE IF ch = "E'" THEN <<"E">> ELSE <<ch>>

\* unicodedata.normalize("NFKC", ch): composed letters stay composed
NFKC(ch) == <<ch>>

RECURSIVE Flatten(_)
\* the concatenation of the strings of a sequence
Flatten(ss) ==
    IF ss = <<>> THEN <<>> ELSE Head(ss) \o Flatten(Tail(ss))

\* KeepClass letting the full stop through
KeepClass_KeepsDot(ch) ==
    IF ch \in LowerLetters \cup Digits \cup Whitespace \cup {"-", "."} THEN ch ELSE " "

\* re.sub(r'[^a-z0-9\s-]', ' ', text)
KeepClass(ch) ==
    IF ch \in LowerLetters \cup Digits \cup Whitespace \cup {"-"} THEN ch ELSE " "

RECURSIVE CollapseWhitespace(_, _)
\* re.sub(r'\s+', ' ', text): prevSpace says the previous character was whitespace
CollapseWhitespace(s, prevSpace) ==
    IF s = <<>> THEN <<>>
    ELSE IF Head(s) \in Whitespace
         THEN (IF prevSpace THEN <<>> ELSE <<" ">>) \o CollapseWhitespace(Tail(s), TRUE)
         ELSE <<Head(s)>> \o CollapseWhitespace(Tail(s), FALSE)

RECURSIVE LStrip(_)
LStrip(s) ==
    IF s # <<>> /\ Head(s) \in Whitespace THEN LStrip(Tail(s)) ELSE s

RECURSIVE RStrip(_)
RStrip(s) ==
    IF s # <<>> /\ s[Len(s)] \in Whitespace THEN RStrip(SubSeq(s, 1, Len(s) - 1)) ELSE s

\* str.strip
strip(s) == RStrip(LStrip(s))

\* str.isspace
isspace(s) == s # <<>> /\ \A x \in DOMAIN s : s[x] \in Whitespace

\* isalpha refusing a single letter
isalpha_TwoLetters(s) ==
    Len(s) >= 2 /\ \A x \in DOMAIN s : s[x] \in LowerLetters \cup UpperLetters \cup {"e'", "E'"}

\* str.isalpha: non-empty and letters only
isalpha(s) ==
    s # <<>> /\ \A x \in DOMAIN s : s[x] \in LowerLetters \cup UpperLetters \cup {"e'", "E'"}

\* the operator `in` of two strings
Contains(sub, s) ==
    \E p \in 0..(Len(s) - Len(sub)) : Slice(s, p, p + Len(sub)) = sub

RECURSIVE Join(_, _)
\* sep.join(parts)
Join(sep, parts) ==
    IF parts = <<>> THEN <<>>
    ELSE IF Len(parts) = 1 THEN parts[1]
    ELSE parts[1] \o sep \o Join(sep, Tail(parts))

RECURSIVE SplitOn(_, _, _)
\* str.split(sep) for a one-character sep: cur is the part being read
SplitOn(s, sep, cur) ==
    IF s = <<>> THEN <<cur>>
    ELSE IF Head(s) = sep THEN <<cur>> \o SplitOn(Tail(s), sep, <<>>)
    ELSE SplitOn(Tail(s), sep, Append(cur, Head(s)))

\* str.split(): the maximal runs of non-whitespace characters
SplitWords(s) ==
    LET parts == SplitOn(CollapseWhitespace(s, FALSE), " ", <<>>)
    IN  SelectSeq(parts, LAMBDA p : p # <<>>)

-----------------------------------------------------------------------------
(* Matching_name_verification.py: normalisation and tokens.                *)

\* normalize_text with lines 70 and 71 in the other order: whitespace is
\* collapsed and stripped before the other characters become spaces
normalize_text_CollapseFirst(text, preserve_accents) ==
    LET lowered == lower(IF text = <<"None">> THEN <<>> ELSE text)
        folded  == IF preserve_accents
                   THEN Flatten([x \in DOMAIN lowered |-> NFKC(lowered[x])])
                   ELSE Flatten([x \in DOMAIN lowered |-> NFKDAscii(lowered[x])])
        trimmed == strip(CollapseWhitespace(folded, FALSE))
    IN  [x \in DOMAIN trimmed |-> KeepClass(trimmed[x])]

\* None as the argument text: a value that is no str (no character is "None")
NoneText == <<"None">>

\* lines 61-72; line 63 reads (text or "").lower()
normalize_text(text, preserve_accents) ==
    LET lowered == lower(IF text = NoneText THEN <<>> ELSE text)
        folded  == IF preserve_accents
                   THEN Flatten([x \in DOMAIN lowered |-> NFKC(lowered[x])])
                   ELSE Flatten([x \in DOMAIN lowered |-> NFKDAscii(lowered[x])])
        kept    == [x \in DOMAIN folded |-> KeepClass(folded[x])]
    IN  strip(CollapseWhitespace(kept, FALSE))


\* the highest 0-based index of ch in s, or -1
LastIndexOf(s, ch) ==
    LET at == {x \in DOMAIN s : s[x] = ch}
    IN  IF at = {} THEN -1 ELSE (CHOOSE x \in at : \A y \in at : y <= x) - 1

\* os.path.basename: what follows the last "/"
basename(path) == Slice(path, LastIndexOf(path, "/") + 1, Len(path))

\* splitext_root keeping the extension
splitext_root_KeepExtension(p) == p

\* os.path.splitext(p)[0]: p up to its last dot, unless only dots precede it
splitext_root(p) ==
    LET dot == LastIndexOf(p, ".")
    IN  IF dot >= 0 /\ \E x \in 1..dot : p[x] # "."
        THEN Slice(p, 0, dot) ELSE p

\* the separators extract_name_tokens replaces by '_'
Separators == {"_", "-", ".", " "}

\* TokenOfPart asking for both forms to be non-empty
TokenOfPart_BothForms(part) ==
    IF normalize_text(part, FALSE) # <<>> /\ normalize_text(part, TRUE) # <<>>
    THEN << <<normalize_text(part, FALSE), normalize_text(part, TRUE)>> >>
    ELSE <<>>

\* one entry of the token list, or none, for one part of the file name
TokenOfPart(part) ==
    LET norm_no_accents   == normalize_text(part, FALSE)
        norm_with_accents == normalize_text(part, TRUE)
    IN  IF (norm_no_accents # <<>> /\ ~isspace(norm_no_accents))
           \/ (norm_with_accents # <<>> /\ ~isspace(norm_with_accents))
        THEN << <<norm_no_accents, norm_with_accents>> >>
        ELSE <<>>

extract_name_tokens(filename) ==
    LET base     == splitext_root(basename(filename))
        replaced == [x \in DOMAIN base |->
                        IF base[x] \in Separators THEN "_" ELSE base[x]]
        parts    == SplitOn(replaced, "_", <<>>)
    IN  Flatten([x \in DOMAIN parts |-> TokenOfPart(parts[x])])

\* AlphaTokens without the filter
AlphaTokens_Unfiltered(tokens) == tokens

\* the tokens check_name_in_pdf keeps: those whose accent-stripped form isalpha
AlphaTokens(tokens) == SelectSeq(tokens, LAMBDA tok : isalpha(tok[1]))

is_bidirectional_match(a, b) == normalize_text(a, FALSE) = normalize_text(b, FALSE)

\* ExactFound by plain containment, without the padding spaces
ExactFound_Substring(word, text) ==
    Contains(normalize_text(word, FALSE), normalize_text(text, FALSE))

\* the first component of find_exact_word_match's result
ExactFound(word, text) ==
    LET norm_word == normalize_text(word, FALSE)
        norm_text == normalize_text(text, FALSE)
    IN  Contains(<<" ">> \o norm_word \o <<" ">>, <<" ">> \o norm_text \o <<" ">>)

\* find_exact_word_match: (found, matched text)
find_exact_word_match(word, text) ==
    IF ExactFound(word, text) THEN <<TRUE, word>> ELSE <<FALSE, <<>> >>

\* the candidates get_best_ngram_match hands to process.extractOne
NgramCandidates(chunk) ==
    LET words == SplitWords(chunk)
    IN  {Join(<<" ">>, SubSeq(words, x, x + n - 1)) :
            <<x, n>> \in {pr \in (1..Len(words)) \X (2..5) : pr[1] + pr[2] - 1 <= Len(words)}}
        \cup {chunk}

-----------------------------------------------------------------------------
(* Config, messages and the text extraction.                               *)

NO_MATCH_THRESHOLD == 30

PERFECT_MATCH_THRESHOLD == 100

MAX_WORKERS == 4

CHUNK_SIZE == 2000

\* A message is a record; Python's None is the record NoError.
NoError == [kind |-> "None", page |-> 0, exc |-> ""]

\* f"Error on page {page_num}: {str(e)}"
ErrorOnPage(page_num, e) == [kind |-> "Error on page", page |-> page_num, exc |-> e]

\* f"Error opening PDF: {str(e)}"
ErrorOpening(e) == [kind |-> "Error opening PDF", page |-> 0, exc |-> e]

NoAlphaTokens == [kind |-> "No valid alphabetic name tokens found", page |-> 0, exc |-> ""]

\* f"Processing error: {str(e)}"
ProcessingError(e) == [kind |-> "Processing error", page |-> 0, exc |-> e]

\* the truth value of a message: None is false, every message text is non-empty
Truthy(error) == error.kind # "None"

\* None, as the value of best_pair
NonePair == <<>>

\* A PDF as pdfplumber sees it: opens says whether pdfplumber.open succeeds
\* (exc is what it raises otherwise), and each page either yields a text
\* (the empty text stands for None too) or raises on extract_text.
TextPage(text) == [raises |-> FALSE, text |-> text, exc |-> ""]

BadPage(e) == [raises |-> TRUE, text |-> <<>>, exc |-> e]

\* the page texts extract_text_from_pdf appends to text_content
PageTexts(pages) ==
    LET kept == SelectSeq(pages, LAMBDA pg : ~pg.raises /\ pg.text # <<>> /\ ~isspace(pg.text))
    IN  [x \in DOMAIN kept |-> kept[x].text]

\* the error_message after the page loop: that of the last page that raised
PageError(pages) ==
    LET bad == {x \in DOMAIN pages : pages[x].raises}
    IN  IF bad = {} THEN NoError
        ELSE LET last == CHOOSE x \in bad : \A y \in bad : y <= x
             IN  ErrorOnPage(last, pages[last].exc)

\* extract_text_from_pdf: (text, error_message)
extract_text_from_pdf(pdf) ==
    IF ~pdf.opens THEN << <<>>, ErrorOpening(pdf.exc) >>
    ELSE << Join(<<" ">>, PageTexts(pdf.pages)), PageError(pdf.pages) >>

-----------------------------------------------------------------------------
(* The folders the model runs on.                                          *)

\* the most parts of a generated file name
MaxParts == 2

\* the most words of a generated document text
MaxWords == 2

\* the raw values fuzz.ratio and fuzz.partial_ratio are let to return
ScoreSamples == {0, 29, 30, 99, 100}

FolderPath == <<"a",".","b">>

PdfExtension == <<".","p","d","f">>

PartVocabulary == {<<"A","n","a">>, <<"L","o","p","e","z">>, <<"1","0","4">>}

WordVocabulary == {<<"a","n","a">>, <<"L","o","p","e","z",",">>}

\* the sequences over S of length lo..hi
SeqsOver(S, lo, hi) == UNION {[1..k -> S] : k \in lo..hi}

\* A file of the folder: its name, its PDF, and whether its evaluation meets
\* an unexpected exception (fault names it; "" is none).
File(name, pdf, fault) == [file |-> name, pdf |-> pdf, fault |-> fault]

OnePage(text) == [opens |-> TRUE, exc |-> "", pages |-> <<TextPage(text)>>]

GeneratedFiles ==
    {File(Join(<<"_">>, parts) \o PdfExtension, OnePage(Join(<<" ">>, words)), "") :
        parts \in SeqsOver(PartVocabulary, 1, MaxParts),
        words \in SeqsOver(WordVocabulary, 0, MaxWords)}

ScenarioA == File(<<"2","0","2","4","-","0","3","_","R","e","p","o","r","t","_","J","o","h","n","_","S","m","i","t","h","_","1","0","4",".","p","d","f">>,
                  OnePage(<<"D","e","a","r"," ","J","o","h","n"," ","S","m","i","t","h",",">>), "")

SubNameFile == File(<<"A","n","a",".","p","d","f">>, OnePage(<<"a","n","a"," ","m","a","r","i","a"," ","l","o","p","e","z">>), "")

ScenarioC == File(<<"x","_","y",".","p","d","f">>, OnePage(<<"x"," ","y">>), "")

DatesOnlyFile == File(<<"2","0","2","4","-","0","3","_","1","0","4",".","p","d","f">>, OnePage(<<"D","e","a","r"," ","J","o","h","n"," ","S","m","i","t","h",",">>), "")

AccentFile == File(<<"Z","o","e'",".","p","d","f">>, OnePage(<<"Z","O","E'","\n","z","o","e">>), "")

\* pdfplumber.open fails
CorruptFile == File(<<"A","n","a","_","L","o","p","e","z",".","p","d","f">>,
                    [opens |-> FALSE, exc |-> "No /Root object", pages |-> <<>>], "")

\* the second page fails, the first and third yield text
BadPageFile == File(<<"A","n","a",".","p","d","f">>,
                    [opens |-> TRUE, exc |-> "",
                     pages |-> <<TextPage(<<"a","n","a">>), BadPage("bad xref"), TextPage(<<"l","o","p","e","z">>)>>], "")

\* the evaluation runs out of memory
FaultyFile == File(<<"L","o","p","e","z",".","p","d","f">>, OnePage(<<"l","o","p","e","z">>), "MemoryError")

ScenarioFiles ==
    {ScenarioA, SubNameFile, ScenarioC, DatesOnlyFile, AccentFile,
     CorruptFile, BadPageFile, FaultyFile}

\* the same file name over an empty document
ScenarioCEmpty == File(<<"x","_","y",".","p","d","f">>, OnePage(<<>>), "")

\* the most files of a folder with several files
MaxFiles == 3

RECURSIVE Repeat(_, _)
\* s * k of Python
Repeat(s, k) == IF k = 0 THEN <<>> ELSE s \o Repeat(s, k - 1)

\* The k-th file of a folder with several files: Ana_1.pdf, Ana_1_1.pdf, ...;
\* every second one fails, in turn by an exception of the evaluation and by
\* a PDF that does not open, the others hold the name, some after a title.
BatchFile(k) ==
    LET name == <<"A","n","a">> \o Repeat(<<"_", "1">>, k) \o PdfExtension
    IN  IF k % 4 = 2 THEN File(name, OnePage(<<"a","n","a">>), "MemoryError")
        ELSE IF k % 4 = 0
        THEN File(name, [opens |-> FALSE, exc |-> "No /Root object", pages |-> <<>>], "")
        ELSE IF k % 4 = 1 THEN File(name, OnePage(<<"A","n","a">>), "")
        ELSE File(name, OnePage(<<>>), "")

Batch(k) == [x \in 1..k |-> BatchFile(x)]

\* three name tokens, and a text in which no pair of them stands as whole
\* words, though "an bo" and "bo cy" are parts of it
ThreeTokensMiss == File(<<"A","n","_","B","o","_","C","y",".","p","d","f">>,
                        OnePage(<<"x","a","n"," ","b","o"," ","c","y","x">>), "")

\* the same name over a text that holds its first pair
ThreeTokensHit == File(<<"A","n","_","B","o","_","C","y",".","p","d","f">>,
                       OnePage(<<"D","e","a","r"," ","A","n"," ","B","o">>), "")

\* a folder with one file more than the executor has workers: a.pdf, b.pdf,
\* ..., each holding its name
PoolFolder ==
    [x \in 1..(MAX_WORKERS + 1) |->
        File(<<AsciiLowercase[x]>> \o PdfExtension, OnePage(<<AsciiLowercase[x]>>), "")]

\* the listings of the selected folder (os.listdir, PDFs only)
Folders ==
    {<<d>> : d \in GeneratedFiles \cup ScenarioFiles
                    \cup {ScenarioCEmpty, ThreeTokensMiss, ThreeTokensHit}}
    \cup {Batch(k) : k \in 2..MaxFiles}

\* a folder of one file: a name of one token that the text does not hold,
\* a name of two tokens that it does not hold, an evaluation that raises
PoolMiss == <<File(<<"a">> \o PdfExtension, OnePage(<<"c">>), "")>>

PoolPairMiss == <<File(<<"a", "_", "b">> \o PdfExtension, OnePage(<<"c">>), "")>>

PoolFault == <<File(<<"a">> \o PdfExtension, OnePage(<<"a">>), "MemoryError")>>

\* the folders on which the executor's bound is looked at
PoolFolders == {PoolFolder, PoolMiss, PoolPairMiss, PoolFault}

-----------------------------------------------------------------------------
(* The state: process_folder's locals and, per file, the future of its     *)
(* check_name_in_pdf call and that call's locals.                          *)

VARIABLES
    pdf_files,   \* the listing: a sequence of files
    submitted,   \* how many files the submission loop has handed to the executor
    future,      \* per file: the state, result and exception of its future
    frame,       \* per file: the locals of its check_name_in_pdf call
    results,     \* the four buckets
    completed,   \* the counter of process_folder
    yielded,     \* the futures as_completed has yielded so far
    call         \* a call of one of the helper functions on its own: its
                 \* arguments and what it returned

vars == <<pdf_files, submitted, future, frame, results, completed, yielded, call>>

Files == DOMAIN pdf_files

total_files == Len(pdf_files)

\* the dict check_name_in_pdf returns; the early returns carry no
\* "matched_text", which process_folder reads as ""
Result(best_pair, best_score, matched_text, error) ==
    [best_pair |-> best_pair, best_score |-> best_score,
     matched_text |-> matched_text, error |-> error]

ErrorResult(error) == Result(NonePair, 0, <<>>, error)

IdleFrame ==
    [pc |-> "idle",
     pdf_no_accents_norm |-> <<>>, pdf_with_accents_norm |-> <<>>,
     alpha_tokens |-> <<>>,
     best_pair |-> NonePair, best_score |-> 0, best_matched_text |-> <<>>,
     perfect_match_found |-> FALSE,
     i |-> 0, j |-> 0, c |-> 0, t |-> 0, n |-> 0, chunk_start |-> 0,
     evaluated |-> 0]

\* no helper function has been called on its own
NoCall == [op |-> "none", text |-> <<>>, word |-> <<>>, preserve_accents |-> FALSE, ret |-> <<>>]

NewFuture == [state |-> "unsubmitted", result |-> ErrorResult(NoError), exception |-> ""]

Init ==
    /\ pdf_files \in Folders
    /\ submitted = 0
    /\ future = [f \in DOMAIN pdf_files |-> NewFuture]
    /\ frame = [f \in DOMAIN pdf_files |-> IdleFrame]
    /\ results = [no_match |-> <<>>, partial_match |-> <<>>,
                  perfect_match |-> <<>>, errors |-> <<>>]
    /\ completed = 0
    /\ yielded = {}
    /\ call = NoCall

-----------------------------------------------------------------------------
(* check_name_in_pdf, step by step.                                        *)

\* os.path.join(folder_path, file)
full_path(file) == FolderPath \o <<"/">> \o file

\* the text the current loop iteration searches: text in [no_accents, with_accents]
CurrentText(fr) ==
    IF fr.t = 1 THEN fr.pdf_no_accents_norm ELSE fr.pdf_with_accents_norm

\* Combinations with the comma form tried before the other two
Combinations_CommaFirst(fr) ==
    LET first == fr.alpha_tokens[fr.i]
        last  == fr.alpha_tokens[fr.j]
    IN  << <<first[1] \o <<",", " ">> \o last[1], first[2] \o <<",", " ">> \o last[2]>>,
           <<first[1] \o <<" ">> \o last[1], first[2] \o <<" ">> \o last[2]>>,
           <<last[1] \o <<" ">> \o first[1], last[2] \o <<" ">> \o first[2]>> >>

\* combinations of the pair (i, j): three orderings, each in both renderings
Combinations(fr) ==
    LET first == fr.alpha_tokens[fr.i]
        last  == fr.alpha_tokens[fr.j]
    IN  << <<first[1] \o <<" ">> \o last[1], first[2] \o <<" ">> \o last[2]>>,
           <<last[1] \o <<" ">> \o first[1], last[2] \o <<" ">> \o first[2]>>,
           <<first[1] \o <<",", " ">> \o last[1], first[2] \o <<",", " ">> \o last[2]>> >>

\* the candidate the current loop iteration searches
CurrentName(fr) ==
    IF Len(fr.alpha_tokens) = 1 THEN fr.alpha_tokens[1][fr.n]
    ELSE Combinations(fr)[fr.c][fr.n]

\* best_pair as the current iteration would record it
CurrentPair(fr) ==
    IF Len(fr.alpha_tokens) = 1 THEN <<CurrentName(fr), <<>> >>
    ELSE <<fr.alpha_tokens[fr.i][2], fr.alpha_tokens[fr.j][2]>>

\* the locals at the end of the function, as the returned dict
ReturnValue(fr) ==
    Result(fr.best_pair, fr.best_score, fr.best_matched_text, NoError)

\* the next iteration of the single-token loops (text outer, name inner),
\* or the end of the function: the pair loops have no pair to visit
NextSingle(fr) ==
    IF fr.n = 1 THEN [fr EXCEPT !.pc = "single_exact", !.n = 2]
    ELSE IF fr.t = 1 THEN [fr EXCEPT !.pc = "single_exact", !.t = 2, !.n = 1]
    ELSE [fr EXCEPT !.pc = "return"]

\* NextPair visiting the adjacent pairs (i, i + 1) only
NextPair_AdjacentOnly(fr) ==
    LET count == Len(fr.alpha_tokens)
    IN  IF fr.n = 1 THEN [fr EXCEPT !.pc = "pair_exact", !.n = 2]
        ELSE IF fr.t = 1 THEN [fr EXCEPT !.pc = "pair_exact", !.t = 2, !.n = 1]
        ELSE IF fr.c < 3 THEN [fr EXCEPT !.pc = "pair_exact", !.c = @ + 1, !.t = 1, !.n = 1]
        ELSE IF fr.i + 2 <= count
             THEN [fr EXCEPT !.pc = "pair_exact", !.i = @ + 1, !.j = fr.i + 2,
                             !.c = 1, !.t = 1, !.n = 1]
        ELSE [fr EXCEPT !.pc = "return"]

\* the next iteration of the pair loops: name, text, combination, j, i
NextPair(fr) ==
    LET count == Len(fr.alpha_tokens)
    IN  IF fr.n = 1 THEN [fr EXCEPT !.pc = "pair_exact", !.n = 2]
        ELSE IF fr.t = 1 THEN [fr EXCEPT !.pc = "pair_exact", !.t = 2, !.n = 1]
        ELSE IF fr.c < 3 THEN [fr EXCEPT !.pc = "pair_exact", !.c = @ + 1, !.t = 1, !.n = 1]
        ELSE IF fr.j < count
             THEN [fr EXCEPT !.pc = "pair_exact", !.j = @ + 1, !.c = 1, !.t = 1, !.n = 1]
        ELSE IF fr.i + 2 <= count
             THEN [fr EXCEPT !.pc = "pair_exact", !.i = @ + 1, !.j = fr.i + 2,
                             !.c = 1, !.t = 1, !.n = 1]
        ELSE [fr EXCEPT !.pc = "return"]

NextCandidate(fr) ==
    IF Len(fr.alpha_tokens) = 1 THEN NextSingle(fr) ELSE NextPair(fr)

\* an exact hit: found and is_bidirectional_match(full_match, name)
IsPerfect(name, text) ==
    LET hit == find_exact_word_match(name, text)
    IN  hit[1] /\ is_bidirectional_match(hit[2], name)

\* after a miss: the chunk loop if the text has a chunk, else the next candidate
AfterMiss(fr) ==
    IF Len(CurrentText(fr)) > 0
    THEN [fr EXCEPT !.pc = IF Len(fr.alpha_tokens) = 1 THEN "single_fuzzy" ELSE "pair_fuzzy",
                    !.chunk_start = 0]
    ELSE NextCandidate(fr)

\* RecordPerfect without the breaks: the loops go on after the hit
RecordPerfect_NoBreak(fr) ==
    AfterMiss([fr EXCEPT !.perfect_match_found = TRUE,
                         !.best_score = 100,
                         !.best_pair = CurrentPair(fr),
                         !.best_matched_text = CurrentName(fr)])

\* the assignments of an exact hit; the breaks that follow leave every loop
RecordPerfect(fr) ==
    [fr EXCEPT !.perfect_match_found = TRUE,
               !.best_score = 100,
               !.best_pair = CurrentPair(fr),
               !.best_matched_text = find_exact_word_match(CurrentName(fr), CurrentText(fr))[2],
               !.pc = "return"]

\* one candidate against one text: find_exact_word_match and what follows it
ExactStep(fr) ==
    LET counted == [fr EXCEPT !.evaluated = @ + 1]
    IN  IF IsPerfect(CurrentName(fr), CurrentText(fr))
        THEN RecordPerfect(counted)
        ELSE AfterMiss(counted)

\* ChunkAt with a window that runs one character into the next one
ChunkAt_Overlapping(text, chunk_start) ==
    Slice(text, chunk_start, chunk_start + CHUNK_SIZE + 1)

\* text[chunk_start:chunk_start + Config.CHUNK_SIZE]
ChunkAt(text, chunk_start) == Slice(text, chunk_start, chunk_start + CHUNK_SIZE)

\* range(0, len(text), Config.CHUNK_SIZE) has a value after chunk_start
HasChunkAfter(text, chunk_start) == chunk_start + CHUNK_SIZE < Len(text)

\* the chunk of the current iteration of the chunk loop
CurrentChunk(fr) == ChunkAt(CurrentText(fr), fr.chunk_start)

\* CapScore without the cap
CapScore_Uncapped(score) == score

\* min(score, Config.PERFECT_MATCH_THRESHOLD - 1)
CapScore(score) == Min(score, PERFECT_MATCH_THRESHOLD - 1)

\* not perfect_match_found and score > best_score
IsNewBest(fr, score) == ~fr.perfect_match_found /\ score > fr.best_score

\* the body of the chunk loop for one chunk: ratio and partial are what
\* fuzz.ratio and fuzz.partial_ratio return, match what get_best_ngram_match does
ScoreChunk(fr, ratio, partial, match) ==
    LET score == Max(ratio, partial)
    IN  IF IsNewBest(fr, score)
        THEN [fr EXCEPT !.best_score = CapScore(score),
                        !.best_pair = CurrentPair(fr),
                        !.best_matched_text = match]
        ELSE fr

\* the chunk loop's step: range(0, len(text), Config.CHUNK_SIZE)
AfterChunk(fr) ==
    IF HasChunkAfter(CurrentText(fr), fr.chunk_start)
    THEN [fr EXCEPT !.chunk_start = @ + CHUNK_SIZE]
    ELSE NextCandidate(fr)

\* lines 131-152: the normalised texts, the tokens and the initial locals
EnterLoops(pdf_path, pdf_text) ==
    LET alpha_tokens == AlphaTokens(extract_name_tokens(pdf_path))
    IN  [IdleFrame EXCEPT
            !.pdf_no_accents_norm = CollapseWhitespace(normalize_text(pdf_text, FALSE), FALSE),
            !.pdf_with_accents_norm = CollapseWhitespace(normalize_text(pdf_text, TRUE), FALSE),
            !.alpha_tokens = alpha_tokens,
            !.pc = IF alpha_tokens = <<>> THEN "done"
                   ELSE IF Len(alpha_tokens) = 1 THEN "single_exact" ELSE "pair_exact",
            !.i = IF Len(alpha_tokens) >= 2 THEN 1 ELSE 0,
            !.j = IF Len(alpha_tokens) >= 2 THEN 2 ELSE 0,
            !.c = IF Len(alpha_tokens) >= 2 THEN 1 ELSE 0,
            !.t = IF alpha_tokens = <<>> THEN 0 ELSE 1,
            !.n = IF alpha_tokens = <<>> THEN 0 ELSE 1]

Running == {f \in Files : future[f].state = "running"}

\* CanStart of an executor without a bound on its threads
CanStart_Unbounded(f) ==
    /\ future[f].state = "pending"
    /\ \A g \in Files : g < f => future[g].state # "pending"

\* a worker thread takes the next work item of the queue, when one is free
CanStart(f) ==
    /\ future[f].state = "pending"
    /\ \A g \in Files : g < f => future[g].state # "pending"
    /\ Cardinality(Running) < MAX_WORKERS

Finish(f, result) ==
    future' = [future EXCEPT ![f] = [state |-> "finished", result |-> result, exception |-> ""]]

\* process_folder, lines 303-306: executor.submit for the next file
Submit ==
    /\ submitted < total_files
    /\ submitted' = submitted + 1
    /\ future' = [future EXCEPT ![submitted + 1].state = "pending"]
    /\ UNCHANGED <<call, pdf_files, frame, results, completed, yielded>>

\* ShortCircuits only when no text at all was extracted
ShortCircuits_OnlyWithoutText(pdf_text, error) == Truthy(error) /\ pdf_text = <<>>

\* line 126: `if error:` returns before anything else is computed
ShortCircuits(pdf_text, error) == Truthy(error)

\* check_name_in_pdf, lines 125-152: extraction, the two early returns, the locals
Start(f) ==
    LET file  == pdf_files[f]
        ext   == extract_text_from_pdf(file.pdf)
        enter == EnterLoops(full_path(file.file), ext[1])
    IN  /\ CanStart(f)
        /\ file.fault = ""
        /\ IF ShortCircuits(ext[1], ext[2])
           THEN /\ Finish(f, ErrorResult(ext[2]))
                /\ frame' = [frame EXCEPT ![f].pc = "done"]
           ELSE IF enter.alpha_tokens = <<>>
           THEN /\ Finish(f, ErrorResult(NoAlphaTokens))
                /\ frame' = [frame EXCEPT ![f] = enter]
           ELSE /\ future' = [future EXCEPT ![f].state = "running"]
                /\ frame' = [frame EXCEPT ![f] = enter]
        /\ UNCHANGED <<call, pdf_files, submitted, results, completed, yielded>>

\* the call raises: the executor stores the exception in the future
Raise(f) ==
    /\ CanStart(f)
    /\ pdf_files[f].fault # ""
    /\ future' = [future EXCEPT ![f] = [state |-> "raised", result |-> ErrorResult(NoError),
                                        exception |-> pdf_files[f].fault]]
    /\ frame' = [frame EXCEPT ![f].pc = "done"]
    /\ UNCHANGED <<call, pdf_files, submitted, results, completed, yielded>>

\* lines 158-167: one single-token candidate against one text
SingleExact(f) ==
    /\ frame[f].pc = "single_exact"
    /\ frame' = [frame EXCEPT ![f] = ExactStep(frame[f])]
    /\ UNCHANGED <<call, pdf_files, submitted, future, results, completed, yielded>>

\* lines 170-179: one chunk of the text against the single-token candidate
SingleFuzzy(f) ==
    /\ frame[f].pc = "single_fuzzy"
    /\ \E ratio \in ScoreSamples, partial \in ScoreSamples,
          match \in NgramCandidates(CurrentChunk(frame[f])) :
            frame' = [frame EXCEPT ![f] = AfterChunk(ScoreChunk(frame[f], ratio, partial, match))]
    /\ UNCHANGED <<call, pdf_files, submitted, future, results, completed, yielded>>

\* lines 186-209: one pair candidate against one text
PairExact(f) ==
    /\ frame[f].pc = "pair_exact"
    /\ frame' = [frame EXCEPT ![f] = ExactStep(frame[f])]
    /\ UNCHANGED <<call, pdf_files, submitted, future, results, completed, yielded>>

\* lines 212-221: one chunk of the text against the pair candidate
PairFuzzy(f) ==
    /\ frame[f].pc = "pair_fuzzy"
    /\ \E ratio \in ScoreSamples, partial \in ScoreSamples,
          match \in NgramCandidates(CurrentChunk(frame[f])) :
            frame' = [frame EXCEPT ![f] = AfterChunk(ScoreChunk(frame[f], ratio, partial, match))]
    /\ UNCHANGED <<call, pdf_files, submitted, future, results, completed, yielded>>

\* Return with the worker appending its own entry to a bucket
Return_AppendsItself(f) ==
    /\ frame[f].pc = "return"
    /\ Finish(f, ReturnValue(frame[f]))
    /\ frame' = [frame EXCEPT ![f].pc = "done"]
    /\ results' = [results EXCEPT !.no_match = Append(@, <<pdf_files[f].file>>)]
    /\ UNCHANGED <<call, pdf_files, submitted, completed, yielded>>

\* lines 234-239: the function returns its locals
Return(f) ==
    /\ frame[f].pc = "return"
    /\ Finish(f, ReturnValue(frame[f]))
    /\ frame' = [frame EXCEPT ![f].pc = "done"]
    /\ UNCHANGED <<call, pdf_files, submitted, results, completed, yielded>>

-----------------------------------------------------------------------------
(* process_folder: the aggregation loop.                                   *)

\* Bucket with the lower threshold counted as no match
Bucket_Inclusive(res) ==
    IF Truthy(res.error) THEN "errors"
    ELSE IF res.best_score <= NO_MATCH_THRESHOLD THEN "no_match"
    ELSE IF res.best_score < PERFECT_MATCH_THRESHOLD THEN "partial_match"
    ELSE "perfect_match"

\* the bucket of a returned result, lines 318-325
Bucket(res) ==
    IF Truthy(res.error) THEN "errors"
    ELSE IF res.best_score < NO_MATCH_THRESHOLD THEN "no_match"
    ELSE IF res.best_score < PERFECT_MATCH_THRESHOLD THEN "partial_match"
    ELSE "perfect_match"

\* the tuple appended for a returned result
Entry(file, res) ==
    IF Truthy(res.error) THEN <<file, res.error>>
    ELSE <<file, res.best_pair, res.best_score, res.matched_text>>

\* AsCompleted stopping at the first future that holds an exception
AsCompleted_Abort(f) ==
    /\ submitted = total_files
    /\ f \notin yielded
    /\ future[f].state \in {"finished", "raised"}
    /\ \A g \in yielded : future[g].state # "raised"

\* line 309: as_completed, entered after the last submit, yields every
\* future once, when it is done, whatever the earlier ones held
AsCompleted(f) ==
    /\ submitted = total_files
    /\ f \notin yielded
    /\ future[f].state \in {"finished", "raised"}

\* Aggregate counting a raised future without an entry for it
Aggregate_DropsRaised(f) ==
    /\ AsCompleted(f)
    /\ yielded' = yielded \cup {f}
    /\ results' =
        IF future[f].state = "raised"
        THEN results
        ELSE LET res == future[f].result
             IN  [results EXCEPT ![Bucket(res)] = Append(@, Entry(pdf_files[f].file, res))]
    /\ completed' = completed + 1
    /\ UNCHANGED <<call, pdf_files, submitted, future, frame>>

\* lines 309-329: as_completed yields a done future; its result is sorted
\* into a bucket, its exception into errors
Aggregate(f) ==
    /\ AsCompleted(f)
    /\ yielded' = yielded \cup {f}
    /\ results' =
        IF future[f].state = "raised"
        THEN [results EXCEPT !.errors =
                Append(@, <<pdf_files[f].file, ProcessingError(future[f].exception)>>)]
        ELSE LET res == future[f].result
             IN  [results EXCEPT ![Bucket(res)] = Append(@, Entry(pdf_files[f].file, res))]
    /\ completed' = completed + 1
    /\ UNCHANGED <<call, pdf_files, submitted, future, frame>>

Next ==
    \/ Submit
    \/ \E f \in Files : Start(f)
    \/ \E f \in Files : Raise(f)
    \/ \E f \in Files : SingleExact(f)
    \/ \E f \in Files : SingleFuzzy(f)
    \/ \E f \in Files : PairExact(f)
    \/ \E f \in Files : PairFuzzy(f)
    \/ \E f \in Files : Return(f)
    \/ \E f \in Files : Aggregate(f)

\* some action of Next can be taken: the disjunction of their guards
StepLeft ==
    \/ submitted < total_files
    \/ \E f \in Files :
          \/ CanStart(f)
          \/ frame[f].pc \in {"single_exact", "single_fuzzy", "pair_exact", "pair_fuzzy", "return"}
          \/ AsCompleted(f)

Spec == Init /\ [][Next]_vars

\* process_folder on a folder of PoolFolders
InitPool ==
    /\ pdf_files \in PoolFolders
    /\ submitted = 0
    /\ future = [f \in DOMAIN pdf_files |-> NewFuture]
    /\ frame = [f \in DOMAIN pdf_files |-> IdleFrame]
    /\ results = [no_match |-> <<>>, partial_match |-> <<>>,
                  perfect_match |-> <<>>, errors |-> <<>>]
    /\ completed = 0
    /\ yielded = {}
    /\ call = NoCall

\* the worker threads and the thread of process_folder keep running: a step
\* that can be taken is taken in the end. This is weak fairness of Next,
\* with the enabling condition of Next written out as StepLeft.
SpecPool == InitPool /\ [][Next]_vars /\ ([]<>(~StepLeft) \/ []<><<Next>>_vars)

-----------------------------------------------------------------------------
(* Duplicate_name_finder_improved_v2.py: the earlier revision of the call. *)
(* Its normalize_text, extract_name_tokens, extract_text_from_pdf and      *)
(* process_folder are those above, line for line.                          *)

\* what the regex class \w accepts
WordChars == LowerLetters \cup UpperLetters \cup Digits \cup {"_", "e'", "E'"}

\* what the regex class [A-Za-z] accepts
AsciiLetters == LowerLetters \cup UpperLetters

\* the character at the 0-based index k is in the class (false off the string)
ClassAt(s, k, class) == k >= 0 /\ k < Len(s) /\ s[k + 1] \in class

\* the regex assertion \b at the 0-based position k
WordBoundary(s, k) == ClassAt(s, k - 1, WordChars) # ClassAt(s, k, WordChars)

RECURSIVE RunEnd(_, _, _)
\* the end of the longest run of characters of the class that starts at k
RunEnd(s, k, class) == IF ClassAt(s, k, class) THEN RunEnd(s, k + 1, class) ELSE k

\* r'\b' + re.escape(norm_word) + r'\b' matches at the 0-based position k
PatternAt(norm_word, norm_text, k) ==
    /\ k + Len(norm_word) <= Len(norm_text)
    /\ Slice(norm_text, k, k + Len(norm_word)) = norm_word
    /\ WordBoundary(norm_text, k)
    /\ WordBoundary(norm_text, k + Len(norm_word))

RECURSIVE PatternMatches(_, _, _)
\* re.finditer of the pattern from position k on: the starts of the matches,
\* left to right and not overlapping (an empty match moves on by one)
PatternMatches(norm_word, norm_text, k) ==
    IF k > Len(norm_text) THEN <<>>
    ELSE IF PatternAt(norm_word, norm_text, k)
         THEN <<k>> \o PatternMatches(norm_word, norm_text,
                                      IF norm_word = <<>> THEN k + 1 ELSE k + Len(norm_word))
         ELSE PatternMatches(norm_word, norm_text, k + 1)

RECURSIVE WordEnds(_, _, _)
\* the ends of the first, second, ... of at most `left` words of letters that
\* start at k and follow each other after whitespace
WordEnds(s, k, left) ==
    LET e    == RunEnd(s, k, AsciiLetters)
        next == RunEnd(s, e, Whitespace)
    IN  IF left = 0 \/ e = k THEN <<>>
        ELSE IF next > e THEN <<e>> \o WordEnds(s, next, left - 1)
        ELSE <<e>>

\* the end of the match of r'\b[A-Za-z]+(?:\s+[A-Za-z]+){0,3}\b' at k, or -1:
\* the longest of one to four words that ends on a word boundary
ContextMatchEnd(s, k) ==
    LET ends == WordEnds(s, k, 4)
        good == {x \in DOMAIN ends : WordBoundary(s, ends[x])}
    IN  IF ~WordBoundary(s, k) \/ good = {} THEN -1
        ELSE ends[CHOOSE x \in good : \A y \in good : y <= x]

RECURSIVE ContextSpans(_, _)
\* re.finditer of the context pattern from k on: the (start, end) of the matches
ContextSpans(s, k) ==
    IF k >= Len(s) THEN {}
    ELSE LET e == ContextMatchEnd(s, k)
         IN  IF e < 0 THEN ContextSpans(s, k + 1)
             ELSE {<<k, e>>} \cup ContextSpans(s, e)

\* lines 111-127: what the match at m_start adds to all_context_matches
ContextMatches(text, norm_word, norm_text, m_start) ==
    LET start   == Max(0, m_start - 50)
        end     == Min(Len(norm_text), m_start + Len(norm_word) + 50)
        context == Slice(norm_text, start, end)
    IN  {strip(Slice(text, start + sp[1], start + sp[2])) :
            sp \in {q \in ContextSpans(context, 0) :
                        strip(Slice(context, q[1], q[2])) # <<>>}}

RECURSIVE MatchLoop(_, _, _, _, _, _)
\* lines 110-144: the loop over the matches from the x-th on; seen is
\* all_context_matches so far
MatchLoop(word, text, norm_word, norm_text, starts, seen) ==
    IF starts = <<>> THEN <<FALSE, <<>>, {}>>
    ELSE LET all_context_matches ==
                 seen \cup ContextMatches(text, norm_word, norm_text, Head(starts))
             matched_original ==
                 strip(Slice(text, Head(starts), Head(starts) + Len(norm_word)))
             is_part_of_longer_name ==
                 \E other_text \in all_context_matches :
                     /\ normalize_text(matched_original, FALSE) # normalize_text(other_text, FALSE)
                     /\ Contains(normalize_text(matched_original, FALSE),
                                 normalize_text(other_text, FALSE))
         IN  IF normalize_text(matched_original, FALSE) = normalize_text(word, FALSE)
                /\ ~is_part_of_longer_name
             THEN <<TRUE, matched_original, all_context_matches>>
             ELSE MatchLoop(word, text, norm_word, norm_text, Tail(starts), all_context_matches)

\* find_exact_word_match of the earlier revision: a tuple of three,
\* (found, matched_text, all_possible_matches), at both of its returns
find_exact_word_match_v2(word, text) ==
    LET norm_word == normalize_text(word, FALSE)
        norm_text == normalize_text(text, FALSE)
    IN  MatchLoop(word, text, norm_word, norm_text,
                  PatternMatches(norm_word, norm_text, 0), {})

NoTokens == [kind |-> "No valid name tokens found", page |-> 0, exc |-> ""]

\* lines 153-164: the normalised texts, the tokens (all of them: this
\* revision has no alphabetic filter; the field alpha_tokens holds them) and
\* the initial locals
EnterLoopsV2(pdf_path, pdf_text) ==
    LET tokens == extract_name_tokens(pdf_path)
    IN  [IdleFrame EXCEPT
            !.pdf_no_accents_norm = normalize_text(pdf_text, FALSE),
            !.pdf_with_accents_norm = normalize_text(pdf_text, TRUE),
            !.alpha_tokens = tokens,
            !.pc = IF tokens = <<>> THEN "done"
                   ELSE IF Len(tokens) = 1 THEN "single_exact" ELSE "pair_exact",
            !.i = IF Len(tokens) >= 2 THEN 1 ELSE 0,
            !.j = IF Len(tokens) >= 2 THEN 2 ELSE 0,
            !.c = IF Len(tokens) >= 2 THEN 1 ELSE 0,
            !.t = IF tokens = <<>> THEN 0 ELSE 1,
            !.n = IF tokens = <<>> THEN 0 ELSE 1]

\* how many names the call's assignment unpacks the returned tuple into:
\* `found, full_match, context_matches = ...` in the single-token loop
\* (line 170), `found, full_match = ...` in the pair loop (line 218)
UnpackTargets(fr) == IF Len(fr.alpha_tokens) = 1 THEN 3 ELSE 2

\* lines 178-182: the context holds a longer variation of the name
HasVariations(name, context_matches) ==
    \E other_match \in context_matches :
        /\ normalize_text(other_match, FALSE) # normalize_text(name, FALSE)
        /\ Contains(normalize_text(name, FALSE), normalize_text(other_match, FALSE))

\* the condition under which the hit is recorded as perfect: lines 171-184
\* for a single token, lines 219-221 for a pair
IsPerfectV2(fr, value) ==
    /\ value[1]
    /\ normalize_text(value[2], FALSE) = normalize_text(CurrentName(fr), FALSE)
    /\ Len(fr.alpha_tokens) = 1 => ~HasVariations(CurrentName(fr), value[3])

\* one chunk, lines 191-199 and 228-236: no cap, and the name as matched text
ScoreChunkV2(fr, ratio, partial) ==
    LET score == Max(ratio, partial)
    IN  IF score > fr.best_score
        THEN [fr EXCEPT !.best_score = score,
                        !.best_pair = CurrentPair(fr),
                        !.best_matched_text = CurrentName(fr)]
        ELSE fr

\* check_name_in_pdf, lines 149-164
StartV2(f) ==
    LET file  == pdf_files[f]
        ext   == extract_text_from_pdf(file.pdf)
        enter == EnterLoopsV2(full_path(file.file), ext[1])
    IN  /\ CanStart(f)
        /\ file.fault = ""
        /\ IF Truthy(ext[2])
           THEN /\ Finish(f, ErrorResult(ext[2]))
                /\ frame' = [frame EXCEPT ![f].pc = "done"]
           ELSE IF enter.alpha_tokens = <<>>
           THEN /\ Finish(f, ErrorResult(NoTokens))
                /\ frame' = [frame EXCEPT ![f] = enter]
           ELSE /\ future' = [future EXCEPT ![f].state = "running"]
                /\ frame' = [frame EXCEPT ![f] = enter]
        /\ UNCHANGED <<call, pdf_files, submitted, results, completed, yielded>>

\* lines 170-189 and 218-226: one candidate against one text; unpacking a
\* tuple into another number of names raises ValueError
ExactV2(f) ==
    LET fr      == frame[f]
        value   == find_exact_word_match_v2(CurrentName(fr), CurrentText(fr))
        counted == [fr EXCEPT !.evaluated = @ + 1]
    IN  /\ fr.pc \in {"single_exact", "pair_exact"}
        /\ IF Len(value) # UnpackTargets(fr)
           THEN /\ future' = [future EXCEPT ![f] =
                        [state |-> "raised", result |-> ErrorResult(NoError),
                         exception |-> "too many values to unpack (expected 2)"]]
                /\ frame' = [frame EXCEPT ![f] = [counted EXCEPT !.pc = "done"]]
           ELSE /\ frame' = [frame EXCEPT ![f] =
                        IF IsPerfectV2(fr, value)
                        THEN [counted EXCEPT !.perfect_match_found = TRUE,
                                             !.best_score = 100,
                                             !.best_pair = CurrentPair(fr),
                                             !.best_matched_text = value[2],
                                             !.pc = "return"]
                        ELSE AfterMiss(counted)]
                /\ UNCHANGED future
        /\ UNCHANGED <<call, pdf_files, submitted, results, completed, yielded>>

\* lines 191-199 and 228-236: one chunk of the text against the candidate
FuzzyV2(f) ==
    /\ frame[f].pc \in {"single_fuzzy", "pair_fuzzy"}
    /\ \E ratio \in ScoreSamples, partial \in ScoreSamples :
            frame' = [frame EXCEPT ![f] = AfterChunk(ScoreChunkV2(frame[f], ratio, partial))]
    /\ UNCHANGED <<call, pdf_files, submitted, future, results, completed, yielded>>

\* the earlier revision: its process_folder (lines 289-345) is the one above
NextV2 ==
    \/ Submit
    \/ \E f \in Files : StartV2(f)
    \/ \E f \in Files : Raise(f)
    \/ \E f \in Files : ExactV2(f)
    \/ \E f \in Files : FuzzyV2(f)
    \/ \E f \in Files : Return(f)
    \/ \E f \in Files : Aggregate(f)

SpecV2 == Init /\ [][NextV2]_vars

-----------------------------------------------------------------------------
(* The helper functions of Matching_name_verification.py called on their   *)
(* own, on strings drawn from small alphabets.                             *)

\* the longest generated string
MaxLen == 3

\* characters of a text: letters of both cases, an accented letter of both
\* cases, a digit, the hyphen, two kinds of whitespace, punctuation
TextAlphabet == {"a", "B", "e'", "E'", "1", "-", " ", "\n", ".", "'"}

\* characters of a path: letters, an accented letter, a digit, the four
\* separators, an apostrophe, the directory separator
PathAlphabet == {"A", "e'", "1", "_", "-", ".", " ", "'", "/"}

\* the strings normalize_text is called on
TextInputs ==
    SeqsOver(TextAlphabet, 0, MaxLen)
    \cup {NoneText,
          <<"Z","O","E'","\n","z","o","e">>,
          <<"a","\\","s","s","b">>, <<"a","n","a"," "," ","b","o">>,
          <<"O","'","B","r","i","e","n">>,
          <<"D","e","a","r"," "," ","J","o","h","n","\t","S","m","i","t","h",","," ">>}

\* the paths extract_name_tokens is called on: bare, and as process_folder
\* builds them
PathInputs ==
    LET names == SeqsOver(PathAlphabet, 0, MaxLen)
                 \cup {<<"O","'","B","r","i","e","n">>,
                       <<"J","o","s","e'","_","_","1","0","4","-","L","o","p","e","z">>}
    IN  names \cup {full_path(nm \o PdfExtension) : nm \in names}

\* the words of the texts find_exact_word_match is called on
MatchVocabulary ==
    {<<"b","a","n","a","n","a">>, <<"a","n","a","-","m","a","r","i","a">>,
     <<"A","n","a",",">>, <<"a","n","a">>, <<"M","A","R","I","A">>}

\* the candidates find_exact_word_match is called on
MatchWords ==
    {<<>>, <<"a","n","a">>, <<"A","n","a"," ","M","a","r","i","a">>,
     <<"a","n","a",","," ","m","a","r","i","a">>, <<"m","a","r","i","a">>}

\* the (word, text) arguments of find_exact_word_match
MatchInputs ==
    {<<w, Join(<<" ">>, ws)>> : w \in MatchWords, ws \in SeqsOver(MatchVocabulary, 0, MaxWords)}

\* no folder is selected
InitText ==
    /\ pdf_files = <<>>
    /\ submitted = 0
    /\ future = <<>>
    /\ frame = <<>>
    /\ results = [no_match |-> <<>>, partial_match |-> <<>>,
                  perfect_match |-> <<>>, errors |-> <<>>]
    /\ completed = 0
    /\ yielded = {}
    /\ \/ \E t \in TextInputs \cup PathInputs : call = [NoCall EXCEPT !.text = t]
       \/ \E wt \in MatchInputs : call = [NoCall EXCEPT !.word = wt[1], !.text = wt[2]]

Folder == <<pdf_files, submitted, future, frame, results, completed, yielded>>

\* normalize_text(text, preserve_accents)
CallNormalize ==
    /\ call.op = "none"
    /\ \E preserve_accents \in BOOLEAN :
          call' = [call EXCEPT !.op = "normalize_text",
                               !.preserve_accents = preserve_accents,
                               !.ret = normalize_text(call.text, preserve_accents)]
    /\ UNCHANGED Folder

\* normalize_text on what normalize_text returned, with the same flag
CallNormalizeAgain ==
    /\ call.op = "normalize_text"
    /\ call' = [call EXCEPT !.op = "normalize_text again",
                            !.ret = normalize_text(call.ret, call.preserve_accents)]
    /\ UNCHANGED Folder

\* find_exact_word_match(word, text)
CallFindExact ==
    /\ call.op = "none"
    /\ call' = [call EXCEPT !.op = "find_exact_word_match",
                            !.ret = find_exact_word_match(call.word, call.text)]
    /\ UNCHANGED Folder

\* extract_name_tokens(filename)
CallExtractTokens ==
    /\ call.op = "none"
    /\ call.text # NoneText
    /\ call' = [call EXCEPT !.op = "extract_name_tokens",
                            !.ret = extract_name_tokens(call.text)]
    /\ UNCHANGED Folder

\* line 143 of check_name_in_pdf on the tokens extract_name_tokens returned
CallAlphaTokens ==
    /\ call.op = "extract_name_tokens"
    /\ call' = [call EXCEPT !.op = "alpha_tokens", !.ret = AlphaTokens(call.ret)]
    /\ UNCHANGED Folder

\* the combining acute accent that NFKD splits off an accented letter
CombiningAcute == "acute"

\* unicodedata.normalize("NFKD", ch): an accented letter decomposes into
\* its base letter and the combining mark
NFKD(ch) ==
    IF ch = "e'" THEN <<"e", CombiningAcute>>
    ELSE IF ch = "E'" THEN <<"E", CombiningAcute>>
    ELSE <<ch>>

RECURSIVE RunOf(_, _)
\* the length of the run of ch at the head of s
RunOf(ch, s) ==
    IF s # <<>> /\ Head(s) = ch THEN 1 + RunOf(ch, Tail(s)) ELSE 0

RECURSIVE SubBackslashS(_)
\* re.sub(r"\\s+", " ", text): the pattern of the raw string is a backslash
\* followed by one or more letters s
SubBackslashS(s) ==
    IF s = <<>> THEN <<>>
    ELSE IF Head(s) = "\\" /\ RunOf("s", Tail(s)) >= 1
         THEN <<" ">> \o SubBackslashS(SubSeq(s, 2 + RunOf("s", Tail(s)), Len(s)))
         ELSE <<Head(s)>> \o SubBackslashS(Tail(s))

\* Duplicate_name_finder_improved.py, normalize_text, lines 48-54
normalize_text_improved(text) ==
    LET lowered == lower(IF text = NoneText THEN <<>> ELSE text)
        folded  == Flatten([x \in DOMAIN lowered |-> NFKD(lowered[x])])
        kept    == SelectSeq(folded, LAMBDA ch : isalpha(<<ch>>) \/ isspace(<<ch>>))
    IN  strip(SubBackslashS(kept))

\* normalize_text(text) of Duplicate_name_finder_improved.py
CallNormalizeImproved ==
    /\ call.op = "none"
    /\ call' = [call EXCEPT !.op = "normalize_text_improved",
                            !.ret = normalize_text_improved(call.text)]
    /\ UNCHANGED Folder

NextText ==
    \/ CallNormalizeImproved
    \/ CallNormalize
    \/ CallNormalizeAgain
    \/ CallFindExact
    \/ CallExtractTokens
    \/ CallAlphaTokens

SpecText == InitText /\ [][NextText]_vars

-----------------------------------------------------------------------------
(* What the properties speak of, stated over a file and not over the       *)
(* locals of its evaluation.                                               *)

ExtractedText(file) == extract_text_from_pdf(file.pdf)[1]

ExtractionError(file) == extract_text_from_pdf(file.pdf)[2]

NameTokens(file) == extract_name_tokens(full_path(file.file))

\* the tokens whose accent-stripped form is alphabetic
Alphabetic(file) == SelectSeq(NameTokens(file), LAMBDA tok : isalpha(tok[1]))

\* the two normalised texts, in the order they are searched
SearchTexts(file) ==
    <<normalize_text(ExtractedText(file), FALSE), normalize_text(ExtractedText(file), TRUE)>>

\* the p-th pair (i, j), i < j, of count positions, i ascending then j ascending
PairAt(p, count) ==
    CHOOSE ij \in (1..count) \X (1..count) :
        /\ ij[1] < ij[2]
        /\ Cardinality({kl \in (1..count) \X (1..count) :
                            /\ kl[1] < kl[2]
                            /\ kl[1] < ij[1] \/ (kl[1] = ij[1] /\ kl[2] < ij[2])}) = p - 1

PairCount(count) == (count * (count - 1)) \div 2

\* how many candidate-against-text trials a file has
TrialCount(file) ==
    LET count == Len(Alphabetic(file))
    IN  IF count = 0 THEN 0 ELSE IF count = 1 THEN 4 ELSE 12 * PairCount(count)

\* the k-th trial: the candidate, the text, and the pair that goes with it
Trial(file, k) ==
    LET toks  == Alphabetic(file)
        text  == SearchTexts(file)[(((k - 1) % 4) \div 2) + 1]
        n     == ((k - 1) % 2) + 1
    IN  IF Len(toks) = 1
        THEN [name |-> toks[1][n], text |-> text, pair |-> <<toks[1][n], <<>> >>]
        ELSE LET ij    == PairAt(((k - 1) \div 12) + 1, Len(toks))
                 first == toks[ij[1]]
                 last  == toks[ij[2]]
                 c     == (((k - 1) % 12) \div 4) + 1
                 name  == IF c = 1 THEN first[n] \o <<" ">> \o last[n]
                          ELSE IF c = 2 THEN last[n] \o <<" ">> \o first[n]
                          ELSE first[n] \o <<",", " ">> \o last[n]
             IN  [name |-> name, text |-> text, pair |-> <<first[2], last[2]>>]

\* the trials in which find_exact_word_match finds the candidate
Hits(file) ==
    {k \in 1..TrialCount(file) : ExactFound(Trial(file, k).name, Trial(file, k).text)}

\* the first of them (0: none)
FirstHit(file) ==
    IF Hits(file) = {} THEN 0 ELSE CHOOSE k \in Hits(file) : \A h \in Hits(file) : k <= h

\* the evaluation of f went past the two early returns
Evaluated(f) ==
    /\ future[f].state \in {"running", "finished"}
    /\ ~Truthy(ExtractionError(pdf_files[f]))
    /\ Alphabetic(pdf_files[f]) # <<>>

Returned(f) == future[f].state = "finished"

\* the entries of a bucket that name the file
EntriesOf(bucket, f) ==
    {x \in DOMAIN results[bucket] : results[bucket][x][1] = pdf_files[f].file}

Listed(bucket, f) == EntriesOf(bucket, f) # {}

Buckets == {"no_match", "partial_match", "perfect_match", "errors"}

\* f is listed in this bucket and in no other
ListedOnlyIn(bucket, f) ==
    \A b \in Buckets : Listed(b, f) <=> b = bucket

-----------------------------------------------------------------------------
(* The properties.                                                         *)

\* C1. Fuzzy score ceiling: a best_score at or above the perfect threshold,
\* in the locals or in the returned result, is there only if some candidate
\* of the file is found by find_exact_word_match; with no such candidate the
\* score is at most PERFECT_MATCH_THRESHOLD - 1, whatever the measures return.
C1_FuzzyCeiling ==
    \A f \in Files :
        /\ frame[f].best_score <= PERFECT_MATCH_THRESHOLD
        /\ future[f].result.best_score <= PERFECT_MATCH_THRESHOLD
        /\ (frame[f].best_score > PERFECT_MATCH_THRESHOLD - 1
            \/ future[f].result.best_score > PERFECT_MATCH_THRESHOLD - 1)
           => FirstHit(pdf_files[f]) # 0

\* a file without any exact hit has returned the capped score
C1_Witness ==
    \E f \in Files :
        /\ Returned(f) /\ Evaluated(f)
        /\ future[f].result.best_score = PERFECT_MATCH_THRESHOLD - 1
        /\ FirstHit(pdf_files[f]) = 0

\* C2. Perfect-match dominance: when some candidate of the file is found by
\* find_exact_word_match, the returned result has score 100 and the pair and
\* matched text of the first such trial, whatever fuzzy scores were recorded
\* before it, and the file is listed in perfect_match and nowhere else.
C2_PerfectDominance ==
    \A f \in Files :
        (Returned(f) /\ Evaluated(f) /\ FirstHit(pdf_files[f]) # 0) =>
            LET hit == Trial(pdf_files[f], FirstHit(pdf_files[f]))
                res == future[f].result
            IN  /\ res = Result(hit.pair, 100, hit.name, NoError)
                /\ frame[f].perfect_match_found
                /\ f \in yielded =>
                    /\ ListedOnlyIn("perfect_match", f)
                    /\ \A x \in EntriesOf("perfect_match", f) :
                          results.perfect_match[x] = <<pdf_files[f].file, hit.pair, 100, hit.name>>

\* an exact hit that came after at least one fuzzy chunk of an earlier trial
C2_Witness ==
    \E f \in Files :
        /\ Returned(f) /\ Evaluated(f) /\ f \in yielded
        /\ FirstHit(pdf_files[f]) > 1
        /\ SearchTexts(pdf_files[f])[1] # <<>>
        /\ future[f].result.best_score = 100

\* C3. Sub-name guard: when the only candidate is the single token "ana"
\* and the text contains "ana maria lopez", the returned result is not a
\* perfect match: the hit is part of a longer name.
C3_SubNameGuard ==
    \A f \in Files :
        ( /\ Returned(f)
          /\ Alphabetic(pdf_files[f]) = << <<<<"a","n","a">>, <<"a","n","a">>>> >>
          /\ Contains(<<"a","n","a"," ","m","a","r","i","a"," ","l","o","p","e","z">>,
                      SearchTexts(pdf_files[f])[1]) )
        => future[f].result.best_score < PERFECT_MATCH_THRESHOLD

\* C4. Classification rule: a yielded result without error is listed in
\* no_match iff its score is below 30, in partial_match iff it is from 30 to
\* 99, in perfect_match iff it is 100 or more; a result with an error is
\* listed in errors only.
C4_Classification ==
    \A f \in yielded :
        Returned(f) =>
            LET res == future[f].result
                s   == res.best_score
            IN  IF Truthy(res.error) THEN ListedOnlyIn("errors", f)
                ELSE /\ Listed("no_match", f) <=> s < NO_MATCH_THRESHOLD
                     /\ Listed("partial_match", f) <=>
                            (NO_MATCH_THRESHOLD <= s /\ s < PERFECT_MATCH_THRESHOLD)
                     /\ Listed("perfect_match", f) <=> s >= PERFECT_MATCH_THRESHOLD
                     /\ ~Listed("errors", f)

\* a score on the lower threshold has been listed as a partial match
C4_Witness ==
    \E f \in yielded :
        /\ Returned(f) /\ ~Truthy(future[f].result.error)
        /\ future[f].result.best_score = NO_MATCH_THRESHOLD
        /\ Listed("partial_match", f)

\* C5. The matching core never raises: a call that meets no failure of its
\* environment returns a result dict; no future of such a call holds an
\* exception, whatever the file name and the text.
C5_NeverRaises ==
    \A f \in Files :
        pdf_files[f].fault = "" => future[f].state # "raised"

\* every file has been yielded and is listed in exactly one bucket
AllAggregated ==
    \A g \in Files : g \in yielded /\ \E b \in Buckets : ListedOnlyIn(b, g)

\* C6. Failure isolation: a file whose evaluation raised is listed in errors,
\* and only there, with the message "Processing error: ..."; and the batch
\* never stops on it: as long as some file is not aggregated a step is left
\* to take, and every file whose evaluation did not raise returns a result.
C6_FailureIsolation ==
    /\ \A f \in yielded :
          future[f].state = "raised" =>
              /\ ListedOnlyIn("errors", f)
              /\ \A x \in EntriesOf("errors", f) :
                    results.errors[x] = <<pdf_files[f].file, ProcessingError(pdf_files[f].fault)>>
    /\ (\E f \in Files : future[f].state = "raised") =>
          \/ StepLeft
          \/ /\ AllAggregated
             /\ completed = total_files
             /\ \A g \in Files : pdf_files[g].fault = "" => Returned(g)

\* a batch is through: one file raised, another returned a perfect match
C6_Witness ==
    /\ AllAggregated
    /\ completed = total_files
    /\ \E f, g \in Files :
          /\ future[f].state = "raised"
          /\ Returned(g) /\ Evaluated(g) /\ Listed("perfect_match", g)

\* C7. Extraction-error short circuit: when extract_text_from_pdf gives an
\* error message (the PDF does not open, or a page fails, other pages having
\* yielded text or not), the call returns best_pair None, best_score 0 and
\* that message, no token list is built and no candidate is tried, and the
\* file is listed in errors only, with that message.
C7_ExtractionShortCircuit ==
    \A f \in Files :
        LET file == pdf_files[f]
            err  == ExtractionError(file)
        IN  (Truthy(err) /\ file.fault = "") =>
                /\ file = BadPageFile => err = ErrorOnPage(2, "bad xref")
                /\ file = CorruptFile => err = ErrorOpening("No /Root object")
                /\ frame[f].evaluated = 0
                /\ frame[f].alpha_tokens = <<>>
                /\ frame[f].pc \in {"idle", "done"}
                /\ future[f].state \in {"unsubmitted", "pending", "finished"}
                /\ Returned(f) => future[f].result = Result(NonePair, 0, <<>>, err)
                /\ f \in yielded =>
                      /\ ListedOnlyIn("errors", f)
                      /\ \A x \in EntriesOf("errors", f) : results.errors[x] = <<file.file, err>>

\* a PDF with a failing page and text on its other pages is listed in errors
C7_Witness ==
    \E f \in yielded :
        /\ pdf_files[f] = BadPageFile
        /\ ExtractedText(pdf_files[f]) # <<>>
        /\ Listed("errors", f)

\* C8. NoNameTokens: with the text extracted, a file name without any
\* alphabetic token returns the error "No valid alphabetic name tokens found"
\* with best_score 0 and best_pair None, and is listed in errors, never in
\* no_match; a file name with an alphabetic token returns error None, and
\* with a score under the lower threshold it is listed in no_match.
C8_NoNameTokens ==
    \A f \in Files :
        (Returned(f) /\ ~Truthy(ExtractionError(pdf_files[f]))) =>
            IF Alphabetic(pdf_files[f]) = <<>>
            THEN /\ future[f].result = Result(NonePair, 0, <<>>, NoAlphaTokens)
                 /\ f \in yielded => ListedOnlyIn("errors", f)
            ELSE /\ future[f].result.error = NoError
                 /\ (f \in yielded /\ future[f].result.best_score < NO_MATCH_THRESHOLD)
                        => ListedOnlyIn("no_match", f)

\* a file name of digits only is listed in errors
C8_Witness ==
    \E f \in yielded :
        /\ pdf_files[f] = DatesOnlyFile
        /\ NameTokens(pdf_files[f]) # <<>>
        /\ Listed("errors", f)

\* C9, as the specification states it. Scenario C: for the file name "x_y.pdf", with the text
\* extracted, the call returns the error "No valid alphabetic name tokens
\* found" and the file is listed in errors.
C9_ScenarioC_Original ==
    \A f \in Files :
        (Returned(f) /\ pdf_files[f].file = ScenarioC.file
                     /\ ~Truthy(ExtractionError(pdf_files[f]))) =>
            /\ future[f].result = Result(NonePair, 0, <<>>, NoAlphaTokens)
            /\ f \in yielded => ListedOnlyIn("errors", f)

\* C9 as amended. For the file name "x_y.pdf", with the text extracted, the
\* parts x and y are alphabetic tokens: the pair (x, y) is tried, the call
\* returns error None, and the file is listed by its score, not in errors;
\* the error "No valid alphabetic name tokens found" is returned only for a
\* file name no part of which is alphabetic.
C9_ScenarioC ==
    \A f \in Files :
        /\ (Returned(f) /\ pdf_files[f].file = ScenarioC.file
                        /\ ~Truthy(ExtractionError(pdf_files[f]))) =>
              /\ frame[f].alpha_tokens = <<<<<<"x">>, <<"x">>>>, <<<<"y">>, <<"y">>>>>>
              /\ frame[f].evaluated >= 1
              /\ future[f].result.error = NoError
              /\ future[f].result.best_pair \in {NonePair, <<<<"x">>, <<"y">>>>}
              /\ f \in yielded => ~Listed("errors", f)
        /\ (Returned(f) /\ future[f].result.error = NoAlphaTokens) =>
              \A x \in DOMAIN NameTokens(pdf_files[f]) :
                  ~isalpha(NameTokens(pdf_files[f])[x][1])

\* x_y.pdf over the text "x y" is listed as a perfect match of the pair (x, y)
C9_Witness ==
    \E f \in yielded :
        /\ pdf_files[f].file = ScenarioC.file
        /\ future[f].result.best_pair = <<<<"x">>, <<"y">>>>
        /\ Listed("perfect_match", f)

\* C10. Scenario A: for "2024-03_Report_John_Smith_104.pdf" over a text
\* containing "Dear John Smith,", the alphabetic tokens are report, john,
\* smith in this order, and the call returns best_score 100, best_pair
\* (john, smith) and the matched text "john smith": a perfect match.
C10_ScenarioA ==
    \A f \in Files :
        ( /\ pdf_files[f].file = <<"2","0","2","4","-","0","3","_","R","e","p","o","r","t","_","J","o","h","n","_","S","m","i","t","h","_","1","0","4",".","p","d","f">>
          /\ Contains(<<"D","e","a","r"," ","J","o","h","n"," ","S","m","i","t","h",",">>, ExtractedText(pdf_files[f])) ) =>
            /\ future[f].state \in {"running", "finished"} =>
                  frame[f].alpha_tokens = <<<<<<"r","e","p","o","r","t">>, <<"r","e","p","o","r","t">>>>,
                                            <<<<"j","o","h","n">>, <<"j","o","h","n">>>>,
                                            <<<<"s","m","i","t","h">>, <<"s","m","i","t","h">>>>>>
            /\ Returned(f) =>
                  future[f].result = Result(<<<<"j","o","h","n">>, <<"s","m","i","t","h">>>>, 100,
                                            <<"j","o","h","n"," ","s","m","i","t","h">>, NoError)
            /\ f \in yielded => ListedOnlyIn("perfect_match", f)

\* scenario A is listed as a perfect match, found at its 25th trial: after
\* the twelve of (report, john) and the twelve of (report, smith)
C10_Witness ==
    \E f \in yielded :
        /\ pdf_files[f] = ScenarioA
        /\ frame[f].evaluated = 25
        /\ Listed("perfect_match", f)

\* the text after lines 63-68: lowered, then composed or stripped of accents
Folded(text, preserve_accents) ==
    LET lowered == lower(IF text = NoneText THEN <<>> ELSE text)
    IN  Flatten([x \in DOMAIN lowered |->
                    IF preserve_accents THEN NFKC(lowered[x]) ELSE NFKDAscii(lowered[x])])

\* the characters line 70 keeps that are not whitespace
WordCharsKept == LowerLetters \cup Digits \cup {"-"}

RECURSIVE RunsOf(_, _, _)
\* the maximal runs, in s, of characters of class (cur: the run being read)
RunsOf(s, class, cur) ==
    IF s = <<>> THEN (IF cur = <<>> THEN <<>> ELSE <<cur>>)
    ELSE IF Head(s) \in class THEN RunsOf(Tail(s), class, Append(cur, Head(s)))
    ELSE (IF cur = <<>> THEN <<>> ELSE <<cur>>) \o RunsOf(Tail(s), class, <<>>)

\* C11. Normalization idempotence: normalize_text applied, with the same
\* preserve_accents, to what normalize_text returned returns it unchanged.
C11_Idempotence ==
    [][call'.op = "normalize_text again" => call'.ret = call.ret]_vars

\* a text that normalisation changed has been normalised twice
C11_Witness ==
    /\ call.op = "normalize_text again"
    /\ call.ret # <<>>
    /\ call.ret # call.text
    /\ \E x \in DOMAIN call.text : call.text[x] \notin WordCharsKept

\* C12. Canonical output form: what normalize_text returns holds only
\* lowercase letters, digits, hyphens and spaces, neither begins nor ends
\* with a space, and has no two spaces in a row; its words are the maximal
\* runs of kept characters of the lowered and folded input, so that every
\* other character has become a separating space; for "" and for None it
\* returns "".
C12_CanonicalForm ==
    call.op = "normalize_text" =>
        /\ \A x \in DOMAIN call.ret : call.ret[x] \in WordCharsKept \cup {" "}
        /\ call.ret # <<>> => call.ret[1] # " " /\ call.ret[Len(call.ret)] # " "
        /\ \A x \in 1..(Len(call.ret) - 1) : ~(call.ret[x] = " " /\ call.ret[x + 1] = " ")
        /\ call.ret = Join(<<" ">>, RunsOf(Folded(call.text, call.preserve_accents), WordCharsKept, <<>>))
        /\ call.text \in {<<>>, NoneText} => call.ret = <<>>

\* "a.B" has been normalised to "a b"
C12_Witness ==
    /\ call.op = "normalize_text"
    /\ call.text = <<"a", ".", "B">>
    /\ call.ret = <<"a", " ", "b">>

\* the accented letters of the alphabets
Accented == {"e'", "E'"}

\* C13. Accent preservation: normalize_text(text, preserve_accents=True)
\* does not strip accents: when the text holds an accented letter so does
\* what is returned, and stripping the accents of what is returned gives
\* what normalize_text(text, preserve_accents=False) returns.
C13_AccentPreservation ==
    (call.op = "normalize_text" /\ call.preserve_accents) =>
        /\ (\E x \in DOMAIN call.text : call.text[x] \in Accented) =>
              (\E y \in DOMAIN call.ret : call.ret[y] \in Accented)
        /\ normalize_text(call.ret, FALSE) = normalize_text(call.text, FALSE)

\* s is a fixed point of normalize_text
Normalized(s) == normalize_text(s, FALSE) = s

\* C14. Normalizer as single authority: every string check_name_in_pdf
\* compares has been passed through normalize_text: the two strings the exact
\* matcher compares, and the candidate and the text window handed to
\* fuzz.ratio and fuzz.partial_ratio, are fixed points of normalize_text.
C14_SingleAuthority ==
    \A f \in Files :
        /\ frame[f].pc \in {"single_exact", "pair_exact"} =>
              /\ Normalized(normalize_text(CurrentName(frame[f]), FALSE))
              /\ Normalized(normalize_text(CurrentText(frame[f]), FALSE))
        /\ frame[f].pc \in {"single_fuzzy", "pair_fuzzy"} =>
              /\ Normalized(CurrentName(frame[f]))
              /\ Normalized(CurrentChunk(frame[f]))

\* norm_word occurs in norm_text at the 0-based position p with a space or
\* the end of the text on either side
WholeWordAt(norm_word, norm_text, p) ==
    /\ Slice(norm_text, p, p + Len(norm_word)) = norm_word
    /\ p = 0 \/ norm_text[p] = " "
    /\ p + Len(norm_word) = Len(norm_text) \/ norm_text[p + Len(norm_word) + 1] = " "

\* C15. Whole-word exact matching: find_exact_word_match(word, text) finds
\* the word if and only if the normalized word occurs in the normalized text
\* with a space or the text boundary immediately on both sides ("ana" is not
\* found inside "banana" nor inside "ana-maria"); when found, the matched
\* text it returns normalizes to the normalized word.
C15_WholeWord ==
    call.op = "find_exact_word_match" =>
        LET norm_word == normalize_text(call.word, FALSE)
            norm_text == normalize_text(call.text, FALSE)
        IN  /\ call.ret[1] = (\E p \in 0..(Len(norm_text) - Len(norm_word)) :
                                  WholeWordAt(norm_word, norm_text, p))
            /\ call.ret[1] => normalize_text(call.ret[2], FALSE) = norm_word
            /\ (norm_word = <<"a","n","a">> /\ call.ret[1]) =>
                  norm_text \notin {<<"b","a","n","a","n","a">>, <<"a","n","a","-","m","a","r","i","a">>,
                                    <<"b","a","n","a","n","a"," ","a","n","a","-","m","a","r","i","a">>}

\* "ana" has not been found in "banana ana-maria"
C15_Witness ==
    /\ call.op = "find_exact_word_match"
    /\ call.word = <<"a","n","a">>
    /\ call.text = <<"b","a","n","a","n","a"," ","a","n","a","-","m","a","r","i","a">>
    /\ call.ret[1] = FALSE

\* s consists solely of letters and spaces
LettersAndSpaces(s) ==
    s # <<>> /\ \A x \in DOMAIN s : s[x] \in LowerLetters \cup UpperLetters \cup {" "}

\* C16. Alphabetic-token rule: check_name_in_pdf keeps a token as a name
\* token if and only if its accent-stripped form consists solely of letters
\* and spaces: the token "o brien" of the part "O'Brien" is kept, a token
\* with a digit is not.
C16_AlphabeticRule ==
    call.op = "alpha_tokens" =>
        call.ret = SelectSeq(extract_name_tokens(call.text),
                             LAMBDA tok : LettersAndSpaces(tok[1]))

RECURSIVE FieldsOf(_, _, _)
\* the fields of s between the characters of seps (cur: the field being read)
FieldsOf(s, seps, cur) ==
    IF s = <<>> THEN <<cur>>
    ELSE IF Head(s) \in seps THEN <<cur>> \o FieldsOf(Tail(s), seps, <<>>)
    ELSE FieldsOf(Tail(s), seps, Append(cur, Head(s)))

\* C17. Token extraction: extract_name_tokens strips directory and
\* extension, splits the base name at every '_', '-', '.' and space alike,
\* and returns, in the order of the parts, one (accent-stripped,
\* accent-preserving) pair for every part one of whose normalized forms is
\* non-empty, and nothing for the others.
C17_TokenExtraction ==
    call.op = "extract_name_tokens" =>
        LET parts == FieldsOf(splitext_root(basename(call.text)), {"_", "-", ".", " "}, <<>>)
            pair(part) == <<normalize_text(part, FALSE), normalize_text(part, TRUE)>>
        IN  /\ call.ret = Flatten([x \in DOMAIN parts |->
                                      IF pair(parts[x]) # << <<>>, <<>> >>
                                      THEN <<pair(parts[x])>> ELSE <<>>])
            /\ \A x \in DOMAIN call.ret : call.ret[x][1] # <<>> \/ call.ret[x][2] # <<>>

\* the tokens of a.b/Jose'__104-Lopez.pdf are (jose, jos), (104, 104) and
\* (lopez, lopez): the empty part between the underscores gives none
C17_Witness ==
    /\ call.op = "extract_name_tokens"
    /\ call.text = full_path(<<"J","o","s","e'","_","_","1","0","4","-","L","o","p","e","z">> \o PdfExtension)
    /\ call.ret = << <<<<"j","o","s","e">>, <<"j","o","s">>>>,
                     <<<<"1","0","4">>, <<"1","0","4">>>>,
                     <<<<"l","o","p","e","z">>, <<"l","o","p","e","z">>>> >>

\* how many pairs the pair loops of f's call have entered: each pair has six
\* candidate strings, each tried against the two texts
PairsEntered(f) == (frame[f].evaluated + 11) \div 12

\* f's call has returned after its pair loops
ReturnedFromPairs(f) ==
    /\ Returned(f)
    /\ ~Truthy(ExtractionError(pdf_files[f]))
    /\ Len(Alphabetic(pdf_files[f])) >= 2

\* C18, as the specification states it. Token-count scaling: every run on a
\* file name with n >= 2 alphabetic tokens evaluates exactly n*(n-1)/2 pairs,
\* for every document text.
C18_TokenScaling_Original ==
    \A f \in Files :
        ReturnedFromPairs(f) =>
            PairsEntered(f) = PairCount(Len(Alphabetic(pdf_files[f])))

\* C18 as amended. A run on a file name with n >= 2 alphabetic tokens that
\* finds no exact match evaluates exactly n*(n-1)/2 pairs, each with its 6
\* candidate strings against both texts; a run that finds an exact match
\* stops at the first candidate found and so evaluates at most n*(n-1)/2
\* pairs: those up to the pair of that candidate.
C18_TokenScaling ==
    \A f \in Files :
        ReturnedFromPairs(f) =>
            LET count == Len(Alphabetic(pdf_files[f]))
                hit   == FirstHit(pdf_files[f])
            IN  IF hit = 0
                THEN /\ frame[f].evaluated = 12 * PairCount(count)
                     /\ PairsEntered(f) = PairCount(count)
                     /\ ~frame[f].perfect_match_found
                ELSE /\ frame[f].evaluated = hit
                     /\ PairsEntered(f) = ((hit - 1) \div 12) + 1
                     /\ PairsEntered(f) <= PairCount(count)
                     /\ frame[f].perfect_match_found

\* three alphabetic tokens and no exact match: all three pairs were
\* evaluated, 36 trials
C18_Witness ==
    \E f \in Files :
        /\ ReturnedFromPairs(f)
        /\ Len(Alphabetic(pdf_files[f])) = 3
        /\ FirstHit(pdf_files[f]) = 0
        /\ frame[f].evaluated = 36

\* C19. Deterministic tie-break: the recorded best_pair is that of the first
\* pair, in the order i ascending then j ascending, that reached the recorded
\* best_score: scoring a chunk for a later pair replaces best_pair only when
\* it makes best_score strictly greater, also when the recorded best_score
\* has been capped at PERFECT_MATCH_THRESHOLD - 1.
C19_TieBreak ==
    [][\A f \in Files :
          (frame[f].pc = "pair_fuzzy" /\ frame'[f].best_pair # frame[f].best_pair) =>
              frame'[f].best_score > frame[f].best_score]_vars

\* the evaluation of f is over: it returned or raised
Done(f) == future[f].state \in {"finished", "raised"}

\* C20. Bounded parallelism: all files are submitted up front, yet at no
\* moment are more than MAX_WORKERS evaluations running; a submission that
\* waits in the executor queue is started and completed in the end: every
\* run comes to the point where all files are submitted, every evaluation
\* is over and as_completed has yielded it; and process_folder has counted
\* every file only when every evaluation is over.
C20_BoundedParallelism ==
    /\ [](Cardinality(Running) <= MAX_WORKERS)
    /\ [](completed = total_files => \A f \in Files : Done(f))
    /\ <>(submitted = total_files /\ \A f \in Files : Done(f) /\ f \in yielded)

\* every file is submitted, MAX_WORKERS evaluations are running and one
\* submission waits in the queue
C20_Witness ==
    /\ submitted = total_files
    /\ Cardinality(Running) = MAX_WORKERS
    /\ \E f \in Files : future[f].state = "pending"

-----------------------------------------------------------------------------
(* Aggregation in process_folder.                                          *)

\* the buckets after one more entry in one of them
GrewByOne(before, after) ==
    \E b \in Buckets :
        /\ Len(after[b]) = Len(before[b]) + 1
        /\ SubSeq(after[b], 1, Len(before[b])) = before[b]
        /\ \A o \in Buckets \ {b} : after[o] = before[o]

\* C21: the buckets and the completed counter are written only by the step
\* of the thread that drains as_completed, one entry and one count at a
\* time; every step of a worker (a change of a future or of a frame of
\* check_name_in_pdf) leaves the buckets, the counter and the set of yielded
\* futures as they were, so no two appends overlap under any interleaving.
C21_SoleSerializationPoint ==
    [][ /\ (results' # results \/ completed' # completed) =>
            /\ \E f \in Files \ yielded :
                /\ future[f].state \in {"finished", "raised"}
                /\ yielded' = yielded \cup {f}
            /\ GrewByOne(results, results')
            /\ completed' = completed + 1
            /\ future' = future
            /\ frame' = frame
        /\ (future' # future \/ frame' # frame) =>
            /\ results' = results
            /\ completed' = completed
            /\ yielded' = yielded
      ]_vars

\* one file is aggregated while two workers are still inside
\* check_name_in_pdf
C21_Witness ==
    /\ completed >= 1
    /\ Cardinality(Running) >= 2
    /\ \E f \in Running : frame[f].pc \notin {"start", "return", "done"}

\* lines 369-370: the number of entries of the four buckets together
total_processed ==
    Len(results.no_match) + Len(results.partial_match)
        + Len(results.perfect_match) + Len(results.errors)

\* the number of entries, over all buckets, that name the file
EntryCount(f) ==
    Cardinality({<<b, x>> \in Buckets \X (1..total_files) :
                    x \in EntriesOf(b, f)})

\* C26: exactly-once aggregation: whatever the order in which the futures
\* complete, and whether they hold a result or an exception, a file that was
\* yielded has exactly one entry in exactly one bucket and a file not yet
\* yielded has none; the entries of the buckets are as many as the files
\* counted so far, and when every future has been yielded they sum to
\* total_files, as does completed.
C26_ExactlyOnce ==
    /\ \A f \in Files : EntryCount(f) = (IF f \in yielded THEN 1 ELSE 0)
    /\ \A b \in Buckets : Len(results[b]) <= total_files
    /\ total_processed = completed
    /\ completed = Cardinality(yielded)
    /\ yielded = Files => (total_processed = total_files /\ completed = total_files)

\* the loop has ended on a batch of three: one file raised, one returned a
\* perfect match and one a score below the thresholds
C26_Witness ==
    /\ yielded = Files
    /\ total_files >= 3
    /\ total_processed = total_files
    /\ \E f \in Files : future[f].state = "raised" /\ Listed("errors", f)
    /\ \E f \in Files : Returned(f) /\ Listed("perfect_match", f)
    /\ \E f \in Files : Returned(f) /\ ~Listed("perfect_match", f)

-----------------------------------------------------------------------------
(* The order of the candidates in check_name_in_pdf.                       *)

\* the frame stands inside the candidate loops
InLoops(fr) == fr.pc \in {"single_exact", "single_fuzzy", "pair_exact", "pair_fuzzy"}

\* the number of pairs (a, b), a < b, that come before (i, j) when the first
\* index ascends and, under it, the second one
PairsBefore(i, j, count) ==
    Cardinality({p \in (1..count) \X (1..count) :
                    /\ p[1] < p[2]
                    /\ (p[1] < i \/ (p[1] = i /\ p[2] < j))})

\* the number of candidate trials that come before the one the frame is at
CandidateRank(fr) ==
    LET inner == (fr.t - 1) * 2 + (fr.n - 1)
    IN  IF Len(fr.alpha_tokens) = 1 THEN inner
        ELSE (PairsBefore(fr.i, fr.j, Len(fr.alpha_tokens)) * 3 + (fr.c - 1)) * 4 + inner

\* the string the frame's position stands for: rendering n of the single
\* token, or of ordering c of the tokens at i and j
CandidateAt(fr) ==
    IF Len(fr.alpha_tokens) = 1 THEN fr.alpha_tokens[1][fr.n]
    ELSE LET first == fr.alpha_tokens[fr.i][fr.n]
             last  == fr.alpha_tokens[fr.j][fr.n]
         IN  IF fr.c = 1 THEN first \o <<" ">> \o last
             ELSE IF fr.c = 2 THEN last \o <<" ">> \o first
             ELSE first \o <<",", " ">> \o last

\* the position of a frame inside the loops is one the enumeration has
WellPlaced(fr) ==
    InLoops(fr) =>
        /\ fr.t \in 1..2 /\ fr.n \in 1..2
        /\ CurrentName(fr) = CandidateAt(fr)
        /\ IF Len(fr.alpha_tokens) = 1
           THEN /\ fr.pc \in {"single_exact", "single_fuzzy"}
                /\ fr.i = 0 /\ fr.j = 0 /\ fr.c = 0
           ELSE /\ fr.pc \in {"pair_exact", "pair_fuzzy"}
                /\ Len(fr.alpha_tokens) >= 2
                /\ 1 <= fr.i /\ fr.i < fr.j /\ fr.j <= Len(fr.alpha_tokens)
                /\ fr.c \in 1..3

\* C23: candidate enumeration: with one alphabetic token the trials are the
\* two renderings of that token and no pair is ever visited; with two or more
\* no single token is tried, and the trials go through the pairs (i, j),
\* i < j, with i ascending and under it j ascending, each pair as "first
\* last", then "last first", then "first, last", each of these in its
\* accent-stripped and its accent-preserving rendering: the loops are entered
\* at the first trial of this order and every step stays at its trial or
\* moves to the next one.
C23_CandidateEnumeration ==
    [][ \A f \in Files :
            /\ WellPlaced(frame[f]) /\ WellPlaced(frame'[f])
            /\ (~InLoops(frame[f]) /\ InLoops(frame'[f])) =>
                    CandidateRank(frame'[f]) = 0
            /\ (InLoops(frame[f]) /\ InLoops(frame'[f])) =>
                    /\ frame'[f].alpha_tokens = frame[f].alpha_tokens
                    /\ CandidateRank(frame'[f]) \in
                          {CandidateRank(frame[f]), CandidateRank(frame[f]) + 1}
      ]_vars

\* a file with three alphabetic tokens is at the last trial of its last
\* pair: the accent-preserving "first, last" of the tokens at 2 and 3
C23_Witness ==
    \E f \in Files :
        /\ InLoops(frame[f])
        /\ Len(frame[f].alpha_tokens) = 3
        /\ frame[f].i = 2 /\ frame[f].j = 3 /\ frame[f].c = 3
        /\ frame[f].t = 2 /\ frame[f].n = 2
        /\ CandidateRank(frame[f]) = 35
        /\ CurrentName(frame[f]) = <<"b", "o", ",", " ", "c", "y">>

-----------------------------------------------------------------------------
(* The chunk loop on its own, over texts longer than one window.           *)

MaxWindows == 3

\* two letters a text is written in
ScanLetters == {"a", "b"}

\* a normalised text of n characters: words of six letters, the letter
\* changing from word to word, single spaces between them
ScanText(n, letter) ==
    [k \in 1..n |-> IF k % 7 = 0 /\ k < n THEN " "
                    ELSE IF (k \div 7) % 2 = 0 THEN letter ELSE "c"]

\* lengths around every multiple of the window size
ScanLengths ==
    {len \in {k * CHUNK_SIZE + d : k \in 0..MaxWindows, d \in {-1, 0, 1}} : len >= 0}

ScanTexts == {ScanText(len, letter) : len \in ScanLengths, letter \in ScanLetters}

\* the chunk loop is about to run over a text: no chunk has been cut
InitScan ==
    /\ pdf_files = <<>>
    /\ submitted = 0
    /\ future = <<>>
    /\ frame = <<>>
    /\ results = [no_match |-> <<>>, partial_match |-> <<>>,
                  perfect_match |-> <<>>, errors |-> <<>>]
    /\ completed = 0
    /\ yielded = {}
    /\ \E t \in ScanTexts :
          call = [op |-> IF Len(t) > 0 THEN "chunk_loop" ELSE "chunk_loop_end",
                  text |-> t, chunk_start |-> 0, ret |-> <<>>]

\* lines 170-171 and 212-213: one iteration of
\* for chunk_start in range(0, len(text), Config.CHUNK_SIZE), the chunks it
\* cuts collected in ret
ScanChunk ==
    /\ call.op = "chunk_loop"
    /\ call' = [call EXCEPT
            !.ret = Append(@, ChunkAt(call.text, call.chunk_start)),
            !.chunk_start = IF HasChunkAfter(call.text, call.chunk_start)
                            THEN @ + CHUNK_SIZE ELSE @,
            !.op = IF HasChunkAfter(call.text, call.chunk_start)
                   THEN "chunk_loop" ELSE "chunk_loop_end"]
    /\ UNCHANGED Folder

InitWindows == Init \/ InitScan

NextWindows == Next \/ ScanChunk

SpecWindows == InitWindows /\ [][NextWindows]_vars

\* the chunk loop runs or has run on its own
Scanning == call.op \in {"chunk_loop", "chunk_loop_end"}

\* the offset at which the k-th chunk of ret starts in the text: the
\* lengths of the chunks before it
OffsetOf(k) == Len(Flatten(SubSeq(call.ret, 1, k - 1)))

C24_WitnessEmpty ==
    \E f \in Files :
        /\ Returned(f) /\ Evaluated(f)
        /\ frame[f].pdf_no_accents_norm = <<>> /\ frame[f].pdf_with_accents_norm = <<>>
        /\ frame[f].evaluated >= 4

-----------------------------------------------------------------------------
(* The snippet of a fuzzy match.                                           *)

\* a step of the chunk loop of f has replaced the snippet
SnippetReplaced(f) ==
    /\ frame[f].pc \in {"single_fuzzy", "pair_fuzzy"}
    /\ frame'[f].best_matched_text # frame[f].best_matched_text

\* what get_best_ngram_match returns is a run of 2 to 5 words of the chunk
\* or the chunk itself, and the chunk itself when it has fewer than 2 words
SnippetIsCandidate ==
    [][ \A f \in Files :
            SnippetReplaced(f) =>
                LET chunk == CurrentChunk(frame[f])
                    words == SplitWords(chunk)
                    snippet == frame'[f].best_matched_text
                IN  /\ \/ snippet = chunk
                       \/ \E x \in 1..Len(words), n \in 2..5 :
                            /\ x + n - 1 <= Len(words)
                            /\ snippet = Join(<<" ">>, SubSeq(words, x, x + n - 1))
                    /\ Len(words) < 2 => snippet = chunk
      ]_vars

\* C25: snippet localization: the snippet get_best_ngram_match returns is a
\* run of 2 to 5 words of the chunk or the whole chunk (the whole chunk when
\* it has fewer than 2 words), and the function is invoked, and so the
\* snippet replaced, only when a window brings a score strictly higher than
\* the best one so far: a step that replaces the snippet raises best_score.
C25_SnippetLocalization ==
    [][ \A f \in Files :
            SnippetReplaced(f) =>
                /\ frame'[f].best_matched_text \in NgramCandidates(CurrentChunk(frame[f]))
                /\ frame'[f].best_score > frame[f].best_score
      ]_vars

-----------------------------------------------------------------------------
(* normalize_text of Duplicate_name_finder_improved.py.                    *)

\* C27: whitespace collapsing in the first revision: what normalize_text of
\* Duplicate_name_finder_improved.py returns has no whitespace at its ends,
\* no whitespace other than the space and no two spaces in a row, and it is
\* what the function returns for the same text with every run of whitespace
\* written as one space.
C27_WhitespaceCollapsing ==
    call.op = "normalize_text_improved" =>
        /\ call.ret = strip(call.ret)
        /\ \A x \in DOMAIN call.ret :
              call.ret[x] \in Whitespace =>
                  /\ call.ret[x] = " "
                  /\ call.ret[x + 1] \notin Whitespace
        /\ call.text # NoneText =>
              call.ret = normalize_text_improved(CollapseWhitespace(call.text, FALSE))

-----------------------------------------------------------------------------
(* The page splitters: Split_PDF_by_PersonNumber.py,                       *)
(* PDF_Splitter_by_PersonNumber.py and Script_split_PDF_by_PersonNumber.py. *)
(* A page is its extracted text and what the name helpers of the two       *)
(* grouping scripts find in it; "e-grave" is the letter e with a grave accent. *)
(* The state of a run is held in call: the locals of the function.         *)

\* str.upper of one character
UpperChar(ch) ==
    IF ch \in LowerLetters
    THEN AsciiUppercase[CHOOSE x \in 1..26 : AsciiLowercase[x] = ch]
    ELSE IF ch = "e'" THEN "E'" ELSE ch

\* str.upper
upper(s) == [x \in DOMAIN s |-> UpperChar(s[x])]

\* valid_chars of sanitize_filename
ValidChars == {"-", "_", ".", "(", ")", " "} \cup LowerLetters \cup UpperLetters \cup Digits

\* sanitize_filename(name)
sanitize_filename(name) == SelectSeq(name, LAMBDA c : c \in ValidChars)

DigitChars == <<"0", "1", "2", "3", "4", "5", "6", "7", "8", "9">>

\* f"{n:04d}" for n below 10000
Format04d(n) ==
    <<DigitChars[((n \div 1000) % 10) + 1], DigitChars[((n \div 100) % 10) + 1],
      DigitChars[((n \div 10) % 10) + 1], DigitChars[(n % 10) + 1]>>

\* re.search(keyword + r"[:\s]+(\d+)", text): group 1 of the leftmost match,
\* or the empty string when nothing matches (group 1 is never empty)
NumberAfter(keyword, text) ==
    LET SepEnd(p) == RunEnd(text, p + Len(keyword), {":"} \cup Whitespace)
        at == {p \in 0..Len(text) :
                  /\ Slice(text, p, p + Len(keyword)) = keyword
                  /\ SepEnd(p) > p + Len(keyword)
                  /\ ClassAt(text, SepEnd(p), Digits)}
    IN  IF at = {} THEN <<>>
        ELSE LET p == CHOOSE x \in at : \A y \in at : x <= y
             IN  Slice(text, SepEnd(p), RunEnd(text, SepEnd(p), Digits))

\* the words the scripts look for
PersonNumberWord == <<"P", "e", "r", "s", "o", "n", " ", "N", "u", "m", "b", "e", "r">>

PNWord == <<"P", "N">>

DearWord == <<"d", "e", "a", "r">>

ChiefPeopleOfficer == <<"c", "h", "i", "e", "f", " ", "p", "e", "o", "p", "l", "e", " ", "o", "f", "f", "i", "c", "e", "r">>

Greetings == {<<"d", "e", "a", "r">>, <<"c", "h", "e", "r">>, <<"c", "h", "e-grave", "r", "e">>}

Unknown == <<"U", "N", "K", "N", "O", "W", "N">>

SalaryReview == <<"_", "S", "a", "l", "a", "r", "y", " ", "R", "e", "v", "i", "e", "w", "_">>

PNNotFoundPage == <<"P", "N", "_", "N", "o", "t", "F", "o", "u", "n", "d", "_", "p", "a", "g", "e", "_">>

\* datetime.now().strftime("%Y-%m"): the month of the run
current_prefix == <<"2", "0", "2", "6", "-", "1", "1">>

\* the folder the user selects for the output
save_folder == <<"/", "o", "u", "t">>

\* os.path.join(folder, name)
path_join(folder, name) == folder \o <<"/">> \o name

\* a page: its text, what extract_name of Split_PDF_by_PersonNumber.py
\* returns for it (name), what extract_name of PDF_Splitter_by_PersonNumber.py
\* returns for it (gui_name), None being NoneText
SplitPageOf(text, name, gui_name) == [text |-> text, name |-> name, gui_name |-> gui_name]

NoName == <<NoneText, NoneText>>

\* the pages of the input PDFs
SplitPages ==
    {SplitPageOf(<<"D", "e", "a", "r", " ", "A", "n", "a", "\n", "P", "e", "r", "s", "o", "n", " ", "N", "u", "m", "b", "e", "r", ":", " ", "7">>,
                 <<<<"A", "n", "a">>, NoneText>>, <<<<"A", "n", "a">>, Unknown>>),
     SplitPageOf(<<"P", "N", ":", " ", "7">>, NoName, NoName),
     SplitPageOf(<<"C", "h", "e", "r", " ", "B", "o">>, NoName, <<<<"B", "o">>, Unknown>>),
     SplitPageOf(<<"S", "i", "n", "c", "e", "r", "e", "l", "y", ",", " ", "C", "h", "i", "e", "f", " ", "P", "e", "o", "p", "l", "e", " ", "O", "f", "f", "i", "c", "e", "r">>, NoName, NoName),
     SplitPageOf(<<"a", "n", "n", "e", "x">>, NoName, NoName),
     SplitPageOf(<<"A", "S", " ", "D", "E", "A", "R">>, NoName, NoName),
     SplitPageOf(<<"C", "h", "e-grave", "r", "e", " ", "Z", "o">>, NoName, <<<<"Z", "o">>, Unknown>>),
     SplitPageOf(<<>>, NoName, NoName)}

MaxPages == 3

\* the selections of input PDFs: every PDF of up to MaxPages pages on its
\* own, and every two PDFs of at most one page
SplitSelections ==
    {<<pdf>> : pdf \in SeqsOver(SplitPages, 0, MaxPages)}
    \cup {<<a, b>> : a \in SeqsOver(SplitPages, 0, 1), b \in SeqsOver(SplitPages, 0, 1)}

\* writer = None, and PdfWriter() after its add_page calls: the pages are
\* named by the PDF they come from and their index in it
NoWriter == [none |-> TRUE, pages |-> <<>>]

WriterOf(pages) == [none |-> FALSE, pages |-> pages]

\* with open(current_filename, "wb") as f_out: writer.write(f_out)
WriteOf(path, writer) == [path |-> path, pages |-> writer.pages]

\* if writer and current_filename
CanSave(c) == ~c.writer.none /\ c.current_filename # NoneText /\ c.current_filename # <<>>

\* "dear" or "chief people officer" looked for in the text as it is,
\* without lower()
page_verification_CaseSensitive(text) ==
    \E phrase \in {DearWord, ChiefPeopleOfficer} : Contains(phrase, text)

\* Split_PDF_by_PersonNumber.py, page_verification, lines 31-36
page_verification(text) ==
    \E phrase \in {DearWord, ChiefPeopleOfficer} : Contains(phrase, lower(text))

\* x if x else "UNKNOWN", for a name that may be None or empty
OrUnknown(name) == IF name = NoneText \/ name = <<>> THEN Unknown ELSE name

\* f"PN_NotFound_page_{i+1:04d}"
NotFoundNumber(i) == PNNotFoundPage \o Format04d(i + 1)

\* lines 139-140, and 150-151 with UNKNOWN names: the path of an output
SalaryReviewPath(folder, last_name, first_name, person_number) ==
    path_join(folder,
              sanitize_filename(current_prefix \o SalaryReview \o last_name \o <<"_">>
                                \o first_name \o <<"_">> \o person_number \o PdfExtension))

\* the page the loop is at, and its name: the index of its PDF and its own
PageAt(c) == c.input_pdfs[c.k][c.i + 1]

PageId(c) == <<c.k, c.i>>

\* main of Split_PDF_by_PersonNumber.py has the PDFs and the folder
\* (lines 89-105) and is about to read the first PDF (lines 107-112)
InitSplitMain ==
    \E pdfs \in SplitSelections :
        call = [op |-> "Split_PDF_by_PersonNumber.main", pc |-> "pages",
                input_pdfs |-> pdfs, k |-> 1, i |-> 0,
                writer |-> NoWriter, current_filename |-> NoneText,
                saved_files |-> <<>>, all_saved_files |-> <<>>, writes |-> <<>>]

\* lines 122-125 and 156-159: the current document is written, if there is one
SaveCurrent(c) ==
    IF CanSave(c)
    THEN [c EXCEPT !.writes = Append(@, WriteOf(c.current_filename, c.writer)),
                   !.saved_files = Append(@, c.current_filename)]
    ELSE c

\* lines 115-153: one page of the current PDF
SplitMainPage ==
    /\ call.op = "Split_PDF_by_PersonNumber.main" /\ call.pc = "pages"
    /\ call.i < Len(call.input_pdfs[call.k])
    /\ LET page     == PageAt(call)
           pn_match == NumberAfter(PersonNumberWord, page.text)
           verified == page_verification(page.text)
           saved    == SaveCurrent(call)
           person_number == IF pn_match # <<>> THEN sanitize_filename(pn_match)
                            ELSE NotFoundNumber(call.i)
       IN  call' =
             IF pn_match # <<>> \/ verified
             THEN [saved EXCEPT
                     !.current_filename =
                         SalaryReviewPath(save_folder, upper(OrUnknown(page.name[2])),
                                          OrUnknown(page.name[1]), person_number),
                     !.writer = WriterOf(<<PageId(call)>>),
                     !.i = @ + 1]
             ELSE IF ~call.writer.none
             THEN [call EXCEPT !.writer = WriterOf(Append(call.writer.pages, PageId(call))),
                               !.i = @ + 1]
             ELSE [call EXCEPT
                     !.current_filename =
                         SalaryReviewPath(save_folder, Unknown, Unknown, NotFoundNumber(call.i)),
                     !.writer = WriterOf(<<PageId(call)>>),
                     !.i = @ + 1]
    /\ UNCHANGED Folder

\* the locals at the head of the loop over the PDFs for the next PDF, or
\* the end of the function after the last one
NextPdf(c) ==
    IF c.k < Len(c.input_pdfs)
    THEN [c EXCEPT !.k = @ + 1, !.i = 0, !.writer = NoWriter,
                   !.current_filename = NoneText, !.saved_files = <<>>]
    ELSE [c EXCEPT !.pc = "done"]

\* lines 155-162, and 107-112 for the next PDF: the last document of the
\* PDF is written and its files are counted
SplitMainEndOfPdf ==
    /\ call.op = "Split_PDF_by_PersonNumber.main" /\ call.pc = "pages"
    /\ call.i = Len(call.input_pdfs[call.k])
    /\ LET saved == SaveCurrent(call)
       IN  call' = NextPdf([saved EXCEPT !.all_saved_files = @ \o saved.saved_files])
    /\ UNCHANGED Folder

\* main of Script_split_PDF_by_PersonNumber.py has the PDFs and the folder
\* (lines 31-45) and is about to read the first PDF (lines 48-50)
InitScriptMain ==
    \E pdfs \in SplitSelections :
        call = [op |-> "Script_split_PDF_by_PersonNumber.main", pc |-> "pages",
                input_pdfs |-> pdfs, k |-> 1, i |-> 0,
                saved_files |-> <<>>, all_saved_files |-> <<>>, writes |-> <<>>]

\* lines 56, 60 and 64: the path the page is written to
output_filename(text, i) ==
    LET match == NumberAfter(PersonNumberWord, text)
        person_number == IF match # <<>> THEN match ELSE NotFoundNumber(i)
    IN  path_join(save_folder, sanitize_filename(person_number) \o PdfExtension)

\* lines 53-68: one page of the current PDF is written to a file of its own
ScriptMainPage ==
    /\ call.op = "Script_split_PDF_by_PersonNumber.main" /\ call.pc = "pages"
    /\ call.i < Len(call.input_pdfs[call.k])
    /\ LET path == output_filename(PageAt(call).text, call.i)
       IN  call' = [call EXCEPT
                      !.writes = Append(@, WriteOf(path, WriterOf(<<PageId(call)>>))),
                      !.saved_files = Append(@, path),
                      !.i = @ + 1]
    /\ UNCHANGED Folder

\* lines 70-71, and 48-50 for the next PDF
ScriptMainEndOfPdf ==
    /\ call.op = "Script_split_PDF_by_PersonNumber.main" /\ call.pc = "pages"
    /\ call.i = Len(call.input_pdfs[call.k])
    /\ call' = IF call.k < Len(call.input_pdfs)
               THEN [call EXCEPT !.all_saved_files = @ \o call.saved_files,
                                 !.k = @ + 1, !.i = 0, !.saved_files = <<>>]
               ELSE [call EXCEPT !.all_saved_files = @ \o call.saved_files,
                                 !.pc = "done"]
    /\ UNCHANGED Folder

\* os.path.join(save_folder, f"Splitted_PDFs_{timestamp_str}"), lines 195-197
output_subfolder == path_join(save_folder, <<"S", "p", "l", "i", "t", "t", "e", "d", "_", "P", "D", "F", "s", "_", "2", "0", "2", "6", "-", "1", "1", "-", "0", "2", "_", "1", "0", "-", "0", "0", "-", "0", "0">>)

\* has_dear with the greeting looked for anywhere in the text
has_dear_Anywhere(text) ==
    \E g \in Greetings : Contains(g, lower(text))

\* line 221: re.search(r"^(Dear|Cher|Chère)[,]?\s+", text, flags=re.I)
has_dear(text) ==
    \E g \in Greetings :
        /\ lower(Slice(text, 0, Len(g))) = g
        /\ \/ ClassAt(text, Len(g), Whitespace)
           \/ ClassAt(text, Len(g), {","}) /\ ClassAt(text, Len(g) + 1, Whitespace)

\* line 223
has_cpo(text) == Contains(ChiefPeopleOfficer, lower(text))

\* find_number_below_name, lines 33-60: the first line of digits within
\* three lines below a line that holds the full name, or None (the empty
\* string here); the names of the full name stand one space apart
find_number_below_name(text, first_names, last_name) ==
    LET raw   == SplitOn(text, "\n", <<>>)
        lines == SelectSeq([x \in DOMAIN raw |-> strip(raw[x])], LAMBDA l : l # <<>>)
        full  == lower(Join(<<" ">>, Append(first_names, last_name)))
        named == {x \in DOMAIN lines :
                    \E k \in 0..Len(lines[x]) : PatternAt(full, lower(lines[x]), k)}
        hits  == {h \in named \X (1..3) :
                    /\ h[1] + h[2] <= Len(lines)
                    /\ \A d \in DOMAIN lines[h[1] + h[2]] : lines[h[1] + h[2]][d] \in Digits}
        first == CHOOSE h \in hits :
                    \A g \in hits : h[1] < g[1] \/ (h[1] = g[1] /\ h[2] <= g[2])
    IN  IF first_names = <<>> \/ last_name = <<>> \/ hits = {} THEN <<>>
        ELSE lines[first[1] + first[2]]

\* process_pdfs of PDF_Splitter_by_PersonNumber.py has the PDFs and the
\* folder (lines 182-206) and is about to read the first PDF (lines 208-216)
InitProcessPdfs ==
    \E pdfs \in SplitSelections :
        call = [op |-> "PDFSplitterGUI.process_pdfs", pc |-> "pages",
                input_pdfs |-> pdfs, k |-> 1, i |-> 0,
                writer |-> NoWriter, current_filename |-> NoneText,
                cpo_found |-> FALSE, person_number_current |-> Unknown,
                first_name_current |-> Unknown, last_name_current |-> Unknown,
                saved_files |-> <<>>, all_saved_files |-> <<>>,
                missing_cpo_list |-> <<>>, unknown_name_list |-> <<>>,
                writes |-> <<>>]

\* the dict appended to missing_cpo_list and unknown_name_list
SummaryItem(c) ==
    [Filename |-> basename(c.current_filename),
     FirstName |-> c.first_name_current, LastName |-> c.last_name_current]

\* lines 227-246 and 283-302: the current document is written, if there is
\* one, and noted when it lacks the signature or a name
SaveSegment(c) ==
    IF CanSave(c)
    THEN [c EXCEPT
            !.writes = Append(@, WriteOf(c.current_filename, c.writer)),
            !.saved_files = Append(@, c.current_filename),
            !.missing_cpo_list = IF ~c.cpo_found THEN Append(@, SummaryItem(c)) ELSE @,
            !.unknown_name_list =
                IF Contains(Unknown, c.first_name_current)
                   \/ Contains(Unknown, c.last_name_current)
                THEN Append(@, SummaryItem(c)) ELSE @]
    ELSE c

\* lines 219-280: one page of the current PDF
ProcessPdfsPage ==
    /\ call.op = "PDFSplitterGUI.process_pdfs" /\ call.pc = "pages"
    /\ call.i < Len(call.input_pdfs[call.k])
    /\ LET page     == PageAt(call)
           pn_match == NumberAfter(PNWord, page.text)
           saved    == SaveSegment(call)
           first    == OrUnknown(page.gui_name[1])
           last     == OrUnknown(page.gui_name[2])
           candidate_pn == find_number_below_name(page.text, SplitWords(first), last)
           person_number == IF pn_match # <<>> THEN sanitize_filename(pn_match)
                            ELSE IF candidate_pn # <<>> THEN sanitize_filename(candidate_pn)
                            ELSE NotFoundNumber(call.i)
       IN  call' =
             IF pn_match # <<>> \/ has_dear(page.text)
             THEN [saved EXCEPT
                     !.first_name_current = first,
                     !.last_name_current = last,
                     !.person_number_current = person_number,
                     !.current_filename =
                         SalaryReviewPath(output_subfolder, upper(last), first, person_number),
                     !.writer = WriterOf(<<PageId(call)>>),
                     !.cpo_found = has_cpo(page.text),
                     !.i = @ + 1]
             ELSE IF ~call.writer.none
             THEN [call EXCEPT !.writer = WriterOf(Append(call.writer.pages, PageId(call))),
                               !.cpo_found = @ \/ has_cpo(page.text),
                               !.i = @ + 1]
             ELSE [call EXCEPT
                     !.current_filename =
                         SalaryReviewPath(output_subfolder, Unknown, Unknown,
                                          NotFoundNumber(call.i)),
                     !.writer = WriterOf(<<PageId(call)>>),
                     !.cpo_found = @ \/ has_cpo(page.text),
                     !.i = @ + 1]
    /\ UNCHANGED Folder

\* lines 282-304, and 208-216 for the next PDF
ProcessPdfsEndOfPdf ==
    /\ call.op = "PDFSplitterGUI.process_pdfs" /\ call.pc = "pages"
    /\ call.i = Len(call.input_pdfs[call.k])
    /\ LET saved == SaveSegment(call)
           counted == [saved EXCEPT !.all_saved_files = @ \o saved.saved_files]
       IN  call' = IF call.k < Len(call.input_pdfs)
                   THEN [NextPdf(counted) EXCEPT
                            !.cpo_found = FALSE, !.person_number_current = Unknown,
                            !.first_name_current = Unknown, !.last_name_current = Unknown]
                   ELSE NextPdf(counted)
    /\ UNCHANGED Folder

InitSplit ==
    /\ pdf_files = <<>>
    /\ submitted = 0
    /\ future = <<>>
    /\ frame = <<>>
    /\ results = [no_match |-> <<>>, partial_match |-> <<>>,
                  perfect_match |-> <<>>, errors |-> <<>>]
    /\ completed = 0
    /\ yielded = {}
    /\ (InitSplitMain \/ InitScriptMain \/ InitProcessPdfs)

NextSplit ==
    \/ SplitMainPage
    \/ SplitMainEndOfPdf
    \/ ScriptMainPage
    \/ ScriptMainEndOfPdf
    \/ ProcessPdfsPage
    \/ ProcessPdfsEndOfPdf

SpecSplit == InitSplit /\ [][NextSplit]_vars

-----------------------------------------------------------------------------
(* The grouping of pages by Split_PDF_by_PersonNumber.py.                  *)

\* the text holds "dear" or "chief people officer" in any case, or a
\* Person Number followed by digits
Marked(text) ==
    \/ Contains(DearWord, lower(text))
    \/ Contains(ChiefPeopleOfficer, lower(text))
    \/ NumberAfter(PersonNumberWord, text) # <<>>

\* the last element of a non-empty sequence
Last(s) == s[Len(s)]

\* C22: page grouping: while main of the grouping script goes through an
\* input PDF, a page that holds none of the three marks and is not the first
\* page of its PDF is appended to the document the preceding page is in, and
\* nothing is written and no new document started; a page that holds one of
\* the marks starts a new document that holds this page only, and when it is
\* not the first page the document of the preceding page has been written,
\* under its name and with its pages, by then.
C22_PageGrouping ==
    [][ (/\ call.op = "Split_PDF_by_PersonNumber.main"
         /\ call'.k = call.k
         /\ call'.i = call.i + 1) =>
            LET text == PageAt(call).text
            IN  /\ (~Marked(text) /\ call.i > 0) =>
                      /\ ~call.writer.none
                      /\ Last(call.writer.pages) = <<call.k, call.i - 1>>
                      /\ call'.writer = WriterOf(Append(call.writer.pages, PageId(call)))
                      /\ call'.current_filename = call.current_filename
                      /\ call'.writes = call.writes
                /\ Marked(text) =>
                      /\ call'.writer = WriterOf(<<PageId(call)>>)
                      /\ call.i = 0 => call'.writes = call.writes
                      /\ call.i > 0 =>
                            /\ Last(call.writer.pages) = <<call.k, call.i - 1>>
                            /\ call'.writes =
                                  Append(call.writes,
                                         [path |-> call.current_filename,
                                          pages |-> call.writer.pages])
      ]_vars

\* a marked page has started a document after the one before it was
\* written, and the page after it, which has no mark, has joined it
C22_Witness ==
    /\ call.op = "Split_PDF_by_PersonNumber.main"
    /\ call.pc = "pages"
    /\ call.i = 3
    /\ Len(call.writes) = 1
    /\ call.writer.pages = <<<<call.k, 1>>, <<call.k, 2>>>>
    /\ Marked(call.input_pdfs[call.k][2].text)
    /\ ~Marked(call.input_pdfs[call.k][3].text)

-----------------------------------------------------------------------------
(* The segments of PDF_Splitter_by_PersonNumber.py.                        *)

\* the text begins with Dear, Cher or Chere (grave accent) in any case,
\* then a comma or none, then whitespace
BeginsWithGreeting(text) ==
    \E g \in Greetings :
        LET after == IF ClassAt(text, Len(g), {","}) THEN Len(g) + 1 ELSE Len(g)
        IN  /\ Len(text) > Len(g)
            /\ lower(SubSeq(text, 1, Len(g))) = g
            /\ ClassAt(text, after, Whitespace)

\* the page opens a segment: the first page of its PDF, a page with PN and
\* digits, or a page that begins with a greeting
OpensSegment(c, id) ==
    LET text == c.input_pdfs[id[1]][id[2] + 1].text
    IN  \/ id[2] = 0
        \/ NumberAfter(PNWord, text) # <<>>
        \/ BeginsWithGreeting(text)

\* the pages the loops have gone through, in the order of the PDFs and of
\* their pages
PagesSoFar(c) ==
    Flatten([k \in 1..c.k |->
                [x \in 1..(IF k < c.k THEN Len(c.input_pdfs[k]) ELSE c.i) |-> <<k, x - 1>>]])

\* the segments so far: those written, in the order of the writes, and the
\* one the writer holds while the pages of its PDF are read
Segments(c) ==
    LET written == [w \in DOMAIN c.writes |-> c.writes[w].pages]
    IN  IF c.pc = "pages" /\ ~c.writer.none THEN Append(written, c.writer.pages)
        ELSE written

\* C28: segment partition: at every point of process_pdfs the segments,
\* one after the other, are the pages read so far in their order, each page
\* once; no segment is empty; a page is the first of its segment exactly when
\* it is the first page of its PDF, has a PN match or begins with a greeting;
\* and when the run is over every segment has been written, once: the writes
\* are as many as the pages that open a segment, and as the files counted.
C28_SegmentPartition ==
    call.op = "PDFSplitterGUI.process_pdfs" =>
        LET segs == Segments(call)
        IN  /\ Flatten(segs) = PagesSoFar(call)
            /\ \A s \in DOMAIN segs :
                  /\ segs[s] # <<>>
                  /\ \A x \in DOMAIN segs[s] : (x = 1) <=> OpensSegment(call, segs[s][x])
            /\ call.pc = "done" =>
                  /\ Len(call.writes) =
                        Cardinality({id \in Range(PagesSoFar(call)) : OpensSegment(call, id)})
                  /\ Len(call.all_saved_files) = Len(call.writes)
                  /\ \A w \in DOMAIN call.writes :
                        call.all_saved_files[w] = call.writes[w].path

\* a run is over that wrote two segments: the first holds the first page,
\* which has neither PN nor greeting, and the page after it; the second was
\* opened by the third page
C28_Witness ==
    /\ call.op = "PDFSplitterGUI.process_pdfs"
    /\ call.pc = "done"
    /\ Len(call.writes) = 2
    /\ call.writes[1].pages = <<<<1, 0>>, <<1, 1>>>>
    /\ call.writes[2].pages = <<<<1, 2>>>>
    /\ NumberAfter(PNWord, call.input_pdfs[1][1].text) = <<>>
    /\ ~BeginsWithGreeting(call.input_pdfs[1][1].text)
    /\ BeginsWithGreeting(call.input_pdfs[1][3].text)

-----------------------------------------------------------------------------
(* The files Script_split_PDF_by_PersonNumber.py writes.                   *)

\* the files in the destination folder: the paths written to
FilesWritten(c) == {c.writes[w].path : w \in DOMAIN c.writes}

\* C29: no output is overwritten: over a run of main of the script that
\* writes every page to a file of its own, no two pages are written to the
\* same path, and when the run is over the files in the destination folder
\* are as many as the count it reports, len(all_saved_files).
C29_NoOverwrite ==
    call.op = "Script_split_PDF_by_PersonNumber.main" =>
        /\ \A v, w \in DOMAIN call.writes :
              v # w => call.writes[v].path # call.writes[w].path
        /\ call.pc = "done" =>
              Cardinality(FilesWritten(call)) = Len(call.all_saved_files)

\* no page is lost from the count: every page read is written and counted
PagesCounted ==
    (call.op = "Script_split_PDF_by_PersonNumber.main" /\ call.pc = "done") =>
        /\ Len(call.all_saved_files) = Len(PagesSoFar(call))
        /\ [w \in DOMAIN call.writes |-> call.writes[w].pages[1]] = PagesSoFar(call)

-----------------------------------------------------------------------------
(* Duplicate_scanned_files_finder.py: find_duplicate_pdfs.                 *)
(* A perceptual hash is the set of the positions of its bits that are 1;   *)
(* h - ih, the Hamming distance, is the number of positions that differ.   *)

phash_threshold == 5

\* imagehash: h - ih
Distance(h, ih) == Cardinality((h \ ih) \cup (ih \ h))

\* a PDF with text (is_text_pdf is true) and the digest of its normalised text
TextPdf(digest) == [is_text |-> TRUE, digest |-> digest, hashed |-> FALSE, phash |-> {}]

\* a scanned PDF and the perceptual hash of its first page
ScannedPdf(phash) == [is_text |-> FALSE, digest |-> "", hashed |-> TRUE, phash |-> phash]

\* a scanned PDF for which perceptual_hash_pdf returns None
UnhashedPdf == [is_text |-> FALSE, digest |-> "", hashed |-> FALSE, phash |-> {}]

\* hashes at the distances 0, 1, 5, 6, 7, 11 and 12 from each other
HashSamples == {{}, {1}, 1..5, 1..6, 1..12}

PdfKinds ==
    {TextPdf("t1"), TextPdf("t2"), UnhashedPdf} \cup {ScannedPdf(h) : h \in HashSamples}

MaxScanned == 3

\* os.listdir: the names of the files, all different
ListedNames == <<"a.pdf", "b.pdf", "c.pdf", "d.pdf", "e.pdf", "f.pdf">>

\* find_duplicate_pdfs has listed the folder (line 66) and made its empty
\* collections (lines 68-72)
InitDup ==
    /\ pdf_files = <<>>
    /\ submitted = 0
    /\ future = <<>>
    /\ frame = <<>>
    /\ results = [no_match |-> <<>>, partial_match |-> <<>>,
                  perfect_match |-> <<>>, errors |-> <<>>]
    /\ completed = 0
    /\ yielded = {}
    /\ \E pdfs \in SeqsOver(PdfKinds, 0, MaxScanned) :
          call = [op |-> "find_duplicate_pdfs", pdf_files |-> pdfs, n |-> 0,
                  text_hashes |-> <<>>, image_hashes |-> <<>>,
                  exact_text_duplicates |-> <<>>,
                  exact_visual_duplicates |-> <<>>,
                  near_visual_duplicates |-> <<>>]

\* the list a scanned file goes to, the near one being tested first
VisualList_NearFirst(dist) ==
    IF dist <= phash_threshold THEN "near_visual_duplicates" ELSE "exact_visual_duplicates"

\* lines 89-96: the list a scanned file within the threshold goes to
VisualList(dist) ==
    IF dist = 0 THEN "exact_visual_duplicates" ELSE "near_visual_duplicates"

\* lines 87-96: the first entry of image_hashes, in the order of insertion,
\* at which the loop breaks, or 0 when it runs to its end
FirstWithin(image_hashes, h) ==
    LET within == {x \in DOMAIN image_hashes :
                      Distance(h, image_hashes[x][1]) <= phash_threshold}
    IN  IF within = {} THEN 0 ELSE CHOOSE x \in within : \A y \in within : x <= y

\* lines 74-98: one file of the folder
ScanFile ==
    /\ call.op = "find_duplicate_pdfs"
    /\ call.n < Len(call.pdf_files)
    /\ LET pdf  == call.pdf_files[call.n + 1]
           file == ListedNames[call.n + 1]
           seen == {x \in DOMAIN call.text_hashes : call.text_hashes[x][1] = pdf.digest}
           stop == FirstWithin(call.image_hashes, pdf.phash)
           next == [call EXCEPT !.n = @ + 1]
       IN  call' =
             IF pdf.is_text
             THEN IF seen # {}
                  THEN [next EXCEPT !.exact_text_duplicates =
                            Append(@, <<file, call.text_hashes[CHOOSE x \in seen : TRUE][2], 0>>)]
                  ELSE [next EXCEPT !.text_hashes = Append(@, <<pdf.digest, file>>)]
             ELSE IF ~pdf.hashed THEN next
             ELSE IF stop # 0
                  THEN LET dist == Distance(pdf.phash, call.image_hashes[stop][1])
                       IN  [next EXCEPT ![VisualList(dist)] =
                               Append(@, <<file, call.image_hashes[stop][2], dist>>)]
                  ELSE [next EXCEPT !.image_hashes = Append(@, <<pdf.phash, file>>)]
    /\ UNCHANGED Folder

NextDup == ScanFile

SpecDup == InitDup /\ [][NextDup]_vars

\* the lists of duplicates
DuplicateLists == {"exact_text_duplicates", "exact_visual_duplicates", "near_visual_duplicates"}

\* the entries of the lists that report the file
ReportsOf(c, file) ==
    {e \in DuplicateLists \X (1..Len(c.pdf_files)) :
        e[2] <= Len(c[e[1]]) /\ c[e[1]][e[2]][1] = file}

\* the files kept as originals
Originals(c) ==
    {c.text_hashes[x][2] : x \in DOMAIN c.text_hashes}
    \cup {c.image_hashes[x][2] : x \in DOMAIN c.image_hashes}

\* C30: exact visual duplicates are never demoted: a scanned file whose
\* perceptual hash is at distance 0 from the hash of an earlier file kept as
\* an original is in exact_visual_duplicates against that original, with
\* distance 0, and not in near_visual_duplicates; every file is reported at
\* most once, in at most one list; and a file kept as an original is in none.
C30_ExactNeverDemoted ==
    call.op = "find_duplicate_pdfs" =>
        /\ \A f \in 1..call.n, o \in DOMAIN call.image_hashes :
              LET pdf  == call.pdf_files[f]
                  file == ListedNames[f]
                  orig == call.image_hashes[o][2]
              IN  (/\ ~pdf.is_text /\ pdf.hashed
                   /\ orig # file
                   /\ Distance(pdf.phash, call.image_hashes[o][1]) = 0) =>
                      /\ \E x \in DOMAIN call.exact_visual_duplicates :
                            call.exact_visual_duplicates[x] = <<file, orig, 0>>
                      /\ \A x \in DOMAIN call.near_visual_duplicates :
                            call.near_visual_duplicates[x][1] # file
        /\ \A f \in 1..Len(call.pdf_files) :
              /\ Cardinality(ReportsOf(call, ListedNames[f])) <= 1
              /\ ListedNames[f] \in Originals(call) => ReportsOf(call, ListedNames[f]) = {}

\* a file is reported as the exact duplicate of the second original, the
\* first original's hash being more than the threshold away from it
C30_Witness ==
    /\ call.op = "find_duplicate_pdfs"
    /\ Len(call.image_hashes) = 2
    /\ \E x \in DOMAIN call.exact_visual_duplicates :
          /\ call.exact_visual_duplicates[x][2] = call.image_hashes[2][2]
          /\ call.exact_visual_duplicates[x][3] = 0
    /\ Distance(call.image_hashes[1][1], call.image_hashes[2][1]) = phash_threshold + 1

=============================================================================
